---- MODULE Spec2Model ----
(***************************************************************************)
(* Record deduplication, scoring, leaderboard ranking and rivalry          *)
(* detection of tm_dedimania, modelled from                                *)
(*   src/backend/Final_Weekly_stats/weekly_team_stats.py  (WeeklyStats-    *)
(*       Generator: tuple records)                                         *)
(*   src/backend/Final_Weekly_stats/gaming_leaderboard.py (dict records).  *)
(* and, for the record store,                                             *)
(*   src/backend/database/dedimania_fetch_to_sqlite.py.                    *)
(*                                                                         *)
(* A record is one row of dedimania_records.  Both scripts read the same   *)
(* columns, so one record shape serves both:                               *)
(*   [login, nick, track, rank, date]                                      *)
(* login, nick and track are strings ("" is the empty string), date is a   *)
(* number ordered like the ISO text of RecordDate.  A rank is the TEXT of  *)
(* the Rank column as a sequence of one-character strings, so that int()   *)
(* and str.isdigit() are computed character by character; SQL NULL         *)
(* (Python None) is the one-element sequence NoneRank.                     *)
(***************************************************************************)
EXTENDS Integers, Sequences, FiniteSets, TLC

VARIABLES
    records,               \* rows returned by the window query, in query order
    pc,                    \* position of the script
    deduplicated_records,  \* weekly_team_stats: deduplicate_records(raw_records)
    recent_records,        \* gaming_leaderboard: deduplicate_player_records(records)
    rededuplicated,        \* both deduplicators applied to their own output
    latest_nicks_cache,    \* WeeklyStatsGenerator._latest_nicks_cache
    challenge_cache,       \* get_challenge_info_cache(): track -> total_records
    points,                \* calculate_points(records, challenge_cache)
    rescored,              \* calculate_points of the records with one more record
    multiplier,            \* an argument of get_competition_multiplier and its result
    prev_player_table,     \* calculate_previous_week_leaderboard: the sorted table
    prev_rankings,         \* login -> 1-based position in the previous window
    player_table,          \* the current window's table after the sort of line 536
    player_table_with_trends, \* the rows written to the CSV, trend in place of login
    rivalry_data,          \* detect_rivalries: rivalry_key -> track -> login -> wins
    rivalries,             \* the list detect_rivalries returns
    rivalries_without,     \* detect_rivalries on the rows without the excluded login's
    time_masters,          \* analyze_time_masters(raw_records), <<>> before the call
    volume_champions,      \* analyze_volume_champions(deduplicated_records)
    humorous_stats,        \* analyze_humorous_stats(raw_records)
    performance_elite,     \* analyze_performance_elite(deduplicated_records)
    first_call,            \* the records of the first get_all_latest_nicknames call
    last_call,             \* the records and the result of the latest such call
    store,                 \* the rows of the table dedimania_records
    server_column,         \* whether dedimania_records has a column server
    fetch_run,             \* the number of the fetch_and_store run under way
    last_insert            \* the latest INSERT OR IGNORE: its values and rowcount

dedupOut == <<deduplicated_records, recent_records, rededuplicated>>
scoreOut == <<points, rescored, multiplier>>
boardOut == <<prev_player_table, prev_rankings, player_table,
              player_table_with_trends>>
rivalOut == <<rivalry_data, rivalries, rivalries_without>>
analyzeOut == <<time_masters, volume_champions, humorous_stats, performance_elite>>
nickOut == <<first_call, last_call>>
storeOut == <<store, server_column, fetch_run, last_insert>>

vars == <<records, pc, latest_nicks_cache, challenge_cache, dedupOut, scoreOut,
          boardOut, rivalOut, analyzeOut, nickOut, storeOut>>

(***************************************************************************)
(* Bounds of the model.                                                    *)
(***************************************************************************)
MaxDedupRecords == 3

(***************************************************************************)
(* Python text primitives.                                                 *)
(***************************************************************************)
NoneRank == <<"None">>

Digits == {"0", "1", "2", "3", "4", "5", "6", "7", "8", "9"}

DigitVal(c) ==
    CASE c = "0" -> 0 [] c = "1" -> 1 [] c = "2" -> 2 [] c = "3" -> 3
      [] c = "4" -> 4 [] c = "5" -> 5 [] c = "6" -> 6 [] c = "7" -> 7
      [] c = "8" -> 8 [] c = "9" -> 9

\* bool(x) of a rank value: None and "" are falsy.
Truthy(rank) == rank # NoneRank /\ rank # <<>>

\* str.isdigit(): non-empty and every character a digit.
IsDigit(s) == Len(s) > 0 /\ \A i \in 1..Len(s) : s[i] \in Digits

RECURSIVE LStrip(_)
LStrip(s) == IF s # <<>> /\ Head(s) = " " THEN LStrip(Tail(s)) ELSE s

RECURSIVE RStrip(_)
RStrip(s) ==
    IF s # <<>> /\ s[Len(s)] = " " THEN RStrip(SubSeq(s, 1, Len(s) - 1)) ELSE s

\* The digits of an int() literal after its sign: digits, with single
\* underscores allowed between digits.
IntBodyOk(b) ==
    /\ Len(b) > 0
    /\ b[1] \in Digits
    /\ b[Len(b)] \in Digits
    /\ \A i \in 1..Len(b) : b[i] \in Digits \/ b[i] = "_"
    /\ \A i \in 1..(Len(b) - 1) : ~(b[i] = "_" /\ b[i + 1] = "_")

RECURSIVE IntBodyVal(_, _)
IntBodyVal(b, acc) ==
    IF b = <<>> THEN acc
    ELSE IF Head(b) = "_" THEN IntBodyVal(Tail(b), acc)
    ELSE IntBodyVal(Tail(b), 10 * acc + DigitVal(Head(b)))

\* int(s) of a str: surrounding blanks stripped, an optional sign, then the
\* digits.  ok = FALSE stands for ValueError.
PyInt(s) ==
    LET t == RStrip(LStrip(s))
        signed == t # <<>> /\ Head(t) \in {"+", "-"}
        body == IF signed THEN Tail(t) ELSE t
    IN  IF IntBodyOk(body)
        THEN [ok |-> TRUE,
              val |-> IF signed /\ Head(t) = "-"
                      THEN 0 - IntBodyVal(body, 0) ELSE IntBodyVal(body, 0)]
        ELSE [ok |-> FALSE, val |-> 0]

Reverse(s) == [i \in 1..Len(s) |-> s[Len(s) + 1 - i]]

(***************************************************************************)
(* Deduplication.                                                          *)
(***************************************************************************)
\* The rank a non-numeric or missing rank is compared as.
WorstRank == 999

\* weekly_team_stats.py 105-108 and 118-121:
\*   try: int(rank) if rank else 999   except: 999
RankInt(rank) ==
    IF ~Truthy(rank) THEN WorstRank
    ELSE IF PyInt(rank).ok THEN PyInt(rank).val ELSE WorstRank

\* gaming_leaderboard.py 246-249 and 258-261:
\*   try: int(rank_str) if rank_str.isdigit() else 999   except: 999
\* (None.isdigit() raises inside the try and lands on 999).
RankIntDigits(rank_str) ==
    IF rank_str = NoneRank THEN WorstRank
    ELSE IF IsDigit(rank_str)
         THEN (IF PyInt(rank_str).ok THEN PyInt(rank_str).val ELSE WorstRank)
         ELSE WorstRank

\* Position of key (login, track) in the insertion-ordered dict track_records,
\* 0 when the key is not in it.
KeyIndex(track_records, login, track) ==
    IF \E i \in 1..Len(track_records) :
           track_records[i].login = login /\ track_records[i].track = track
    THEN CHOOSE i \in 1..Len(track_records) :
           track_records[i].login = login /\ track_records[i].track = track
    ELSE 0

\* DedupStep with the comparison of line 123 turned round.
DedupStepKeepWorse(track_records, record) ==
    IF record.login = "" \/ record.track = "" THEN track_records
    ELSE LET i == KeyIndex(track_records, record.login, record.track) IN
         IF i = 0 THEN Append(track_records, record)
         ELSE IF RankInt(record.rank) > RankInt(track_records[i].rank)
              THEN [track_records EXCEPT ![i] = record]
              ELSE track_records

\* DedupStep replacing the kept record also on an equal rank.
DedupStepReplaceOnTie(track_records, record) ==
    IF record.login = "" \/ record.track = "" THEN track_records
    ELSE LET i == KeyIndex(track_records, record.login, record.track) IN
         IF i = 0 THEN Append(track_records, record)
         ELSE IF RankInt(record.rank) <= RankInt(track_records[i].rank)
              THEN [track_records EXCEPT ![i] = record]
              ELSE track_records

\* DedupStep keeping the record with the rank it was compared as.
DedupStepStoreCoerced(track_records, record) ==
    LET coerced == [record EXCEPT !.rank = IF RankInt(record.rank) = WorstRank
                                           THEN <<"9", "9", "9">> ELSE @]
    IN  IF record.login = "" \/ record.track = "" THEN track_records
        ELSE LET i == KeyIndex(track_records, record.login, record.track) IN
             IF i = 0 THEN Append(track_records, coerced)
             ELSE IF RankInt(record.rank) < RankInt(track_records[i].rank)
                  THEN [track_records EXCEPT ![i] = coerced]
                  ELSE track_records

\* One iteration of the loop of deduplicate_records (lines 98-124).
DedupStep(track_records, record) ==
    IF record.login = "" \/ record.track = "" THEN track_records
    ELSE LET i == KeyIndex(track_records, record.login, record.track) IN
         IF i = 0 THEN Append(track_records, record)
         ELSE IF RankInt(record.rank) < RankInt(track_records[i].rank)
              THEN [track_records EXCEPT ![i] = record]
              ELSE track_records

RECURSIVE DedupLoop(_, _)
DedupLoop(track_records, rest) ==
    IF rest = <<>> THEN track_records
    ELSE DedupLoop(DedupStep(track_records, Head(rest)), Tail(rest))

\* deduplicate_records returning the kept records last-inserted first.
deduplicate_records_reversed(recs) == Reverse(DedupLoop(<<>>, recs))

\* WeeklyStatsGenerator.deduplicate_records: list(track_records.values()).
deduplicate_records(recs) == DedupLoop(<<>>, recs)

\* One iteration of the loop of deduplicate_player_records (lines 237-264).
PlayerDedupStep(track_records, record) ==
    IF record.login = "" \/ record.track = "" THEN track_records
    ELSE LET i == KeyIndex(track_records, record.login, record.track) IN
         IF i = 0 THEN Append(track_records, record)
         ELSE IF RankIntDigits(record.rank) < RankIntDigits(track_records[i].rank)
              THEN [track_records EXCEPT ![i] = record]
              ELSE track_records

RECURSIVE PlayerDedupLoop(_, _)
PlayerDedupLoop(track_records, rest) ==
    IF rest = <<>> THEN track_records
    ELSE PlayerDedupLoop(PlayerDedupStep(track_records, Head(rest)), Tail(rest))

\* gaming_leaderboard.deduplicate_player_records.
deduplicate_player_records(recs) == PlayerDedupLoop(<<>>, recs)

(***************************************************************************)
(* Competition multiplier and points (gaming_leaderboard.py 414-483).      *)
(* A multiplier is held in hundredths (0.5 is 50), the running float sum   *)
(* of calculate_points in hundredths of a point, and the rounded result    *)
(* in tenths of a point.  An optional count is <<>> for None, <<n>> for n. *)
(***************************************************************************)
\* challenge_cache.get(challenge_name, None)
CacheGet(cache, challenge_name) ==
    IF challenge_name \in DOMAIN cache THEN <<cache[challenge_name]>> ELSE <<>>

\* get_competition_multiplier with the last threshold taken as <= 20.
get_competition_multiplier_le20(total_records) ==
    IF total_records = <<>> THEN 50
    ELSE LET n == total_records[1] IN
         IF n <= 0 THEN 50
         ELSE IF n = 1 THEN 10
         ELSE IF n < 5 THEN 20
         ELSE IF n < 10 THEN 40
         ELSE IF n < 15 THEN 60
         ELSE IF n <= 20 THEN 80
         ELSE 100

\* get_competition_multiplier with a bonus above 1.0 from 20 participants on.
get_competition_multiplier_bonus(total_records) ==
    IF total_records = <<>> THEN 50
    ELSE LET n == total_records[1] IN
         IF n <= 0 THEN 50
         ELSE IF n = 1 THEN 10
         ELSE IF n < 5 THEN 20
         ELSE IF n < 10 THEN 40
         ELSE IF n < 15 THEN 60
         ELSE IF n < 20 THEN 80
         ELSE 120

get_competition_multiplier(total_records) ==
    IF total_records = <<>> THEN 50
    ELSE LET n == total_records[1] IN
         IF n <= 0 THEN 50
         ELSE IF n = 1 THEN 10
         ELSE IF n < 5 THEN 20
         ELSE IF n < 10 THEN 40
         ELSE IF n < 15 THEN 60
         ELSE IF n < 20 THEN 80
         ELSE 100

\* BasePoints with rank 3 falling out of the top-3 band.
BasePointsTop2(rank_str) ==
    IF IsDigit(rank_str)
    THEN LET rank == PyInt(rank_str).val IN
         IF rank = 1 THEN 5
         ELSE IF rank < 3 THEN 3
         ELSE IF rank <= 5 THEN 2
         ELSE 1
    ELSE IF rank_str # <<>> THEN 1 ELSE 0

\* Lines 465-477: the base points of one record.
BasePoints(rank_str) ==
    IF IsDigit(rank_str)
    THEN LET rank == PyInt(rank_str).val IN
         IF rank = 1 THEN 5
         ELSE IF rank <= 3 THEN 3
         ELSE IF rank <= 5 THEN 2
         ELSE 1
    ELSE IF rank_str # <<>> THEN 1 ELSE 0

\* Lines 456-481: points += base_points * multiplier, record by record.
RECURSIVE PointsLoop(_, _, _)
PointsLoop(sum, rest, cache) ==
    IF rest = <<>> THEN sum
    ELSE PointsLoop(
             sum + BasePoints(Head(rest).rank)
                     * get_competition_multiplier(CacheGet(cache, Head(rest).track)),
             Tail(rest), cache)

\* round(points, 1): hundredths to the nearest tenth, a half to the even tenth.
Round1(hundredths) ==
    LET q == hundredths \div 10
        r == hundredths % 10
    IN  IF r > 5 \/ (r = 5 /\ q % 2 = 1) THEN q + 1 ELSE q

\* round(points): hundredths to the nearest whole point, given in tenths.
Round0(hundredths) ==
    LET q == hundredths \div 100
        r == hundredths % 100
    IN  10 * (IF r > 50 \/ (r = 50 /\ q % 2 = 1) THEN q + 1 ELSE q)

\* calculate_points returning round(points) in place of round(points, 1).
calculate_points_round0(recs, cache) ==
    IF \E i \in 1..Len(recs) : recs[i].rank = NoneRank
    THEN [raised |-> TRUE, points |-> 0]
    ELSE [raised |-> FALSE, points |-> Round0(PointsLoop(0, recs, cache))]

\* calculate_points.  rank_str.isdigit() of a None rank raises AttributeError,
\* which nothing in the function catches.
calculate_points(recs, cache) ==
    IF \E i \in 1..Len(recs) : recs[i].rank = NoneRank
    THEN [raised |-> TRUE, points |-> 0]
    ELSE [raised |-> FALSE, points |-> Round1(PointsLoop(0, recs, cache))]

(***************************************************************************)
(* The record feed of the deduplication runs.                              *)
(***************************************************************************)
DedupLogins == {"alice", "bob"}
DedupTracks == {"trackA", "trackB"}
\* Rank texts of the Record data model: digits, empty, NULL, other text.
DedupRanks == {<<"1">>, <<"3">>, <<>>, NoneRank, <<"D", "N", "F">>}

\* Rows of every login, track and rank text, and one row each with an empty
\* login and an empty track (skipped by lines 101-102 / 242-243).
DedupFeed ==
    [login : DedupLogins, nick : {"n"}, track : DedupTracks,
     rank : DedupRanks, date : {0}]
    \cup {[login |-> "", nick |-> "n", track |-> "trackA",
            rank |-> <<"1">>, date |-> 0],
           [login |-> "alice", nick |-> "n", track |-> "",
            rank |-> <<"1">>, date |-> 0]}

Init ==
    /\ records = <<>>
    /\ pc = "load"
    /\ deduplicated_records = <<>>
    /\ recent_records = <<>>
    /\ rededuplicated = <<>>
    /\ latest_nicks_cache = <<>>
    /\ challenge_cache = <<>>
    /\ points = <<>>
    /\ rescored = <<>>
    /\ multiplier = <<>>
    /\ prev_player_table = <<>>
    /\ prev_rankings = <<>>
    /\ player_table = <<>>
    /\ player_table_with_trends = <<>>
    /\ rivalry_data = <<>>
    /\ rivalries = <<>>
    /\ rivalries_without = <<>>
    /\ time_masters = <<>>
    /\ volume_champions = <<>>
    /\ humorous_stats = <<>>
    /\ performance_elite = <<>>
    /\ first_call = <<>>
    /\ last_call = <<>>
    /\ store = {}
    /\ server_column = <<>>
    /\ fetch_run = 0
    /\ last_insert = <<>>

\* One more row of the window comes back from the query.
FetchRow(feed, max) ==
    /\ pc = "load"
    /\ Len(records) < max
    /\ \E r \in feed : records' = Append(records, r)
    /\ UNCHANGED <<pc, latest_nicks_cache, challenge_cache, dedupOut, scoreOut,
                   boardOut, rivalOut, analyzeOut, nickOut, storeOut>>

\* Both scripts deduplicate the rows they read.
Deduplicate ==
    /\ pc = "load"
    /\ deduplicated_records' = deduplicate_records(records)
    /\ recent_records' = deduplicate_player_records(records)
    /\ pc' = "deduplicated"
    /\ UNCHANGED <<records, rededuplicated, latest_nicks_cache, challenge_cache,
                   scoreOut, boardOut, rivalOut, analyzeOut, nickOut, storeOut>>

\* Each deduplicator applied to its own output.
DeduplicateAgain ==
    /\ pc = "deduplicated"
    /\ rededuplicated' =
           [weekly |-> deduplicate_records(deduplicated_records),
            gaming |-> deduplicate_player_records(recent_records)]
    /\ pc' = "rededuplicated"
    /\ UNCHANGED <<records, deduplicated_records, recent_records,
                   latest_nicks_cache, challenge_cache, scoreOut, boardOut, rivalOut, analyzeOut, nickOut, storeOut>>

NextDedup ==
    \/ FetchRow(DedupFeed, MaxDedupRecords)
    \/ Deduplicate
    \/ DeduplicateAgain

SpecDedup == Init /\ [][NextDedup]_vars

(***************************************************************************)
(* Claims about deduplication.                                             *)
(***************************************************************************)
SameKey(r, s) == r.login = s.login /\ r.track = s.track

\* The rank as the claims compare it: the decimal value of an all-digit text,
\* 999 for anything else.
ClaimRank(rank) ==
    IF rank # NoneRank /\ IsDigit(rank) THEN IntBodyVal(rank, 0) ELSE 999

BestPerKey(out, in) ==
    /\ \A i, j \in 1..Len(out) : i # j => ~SameKey(out[i], out[j])
    /\ \A i \in 1..Len(out) : \A k \in 1..Len(in) :
           SameKey(out[i], in[k])
               => ClaimRank(out[i].rank) <= ClaimRank(in[k].rank)

C2_DedupIdempotent ==
    pc = "rededuplicated" =>
        /\ rededuplicated.weekly = deduplicated_records
        /\ rededuplicated.gaming = recent_records

\* C2 witness: the first pass dropped a record and kept two keys, and the
\* second pass has run.
C2_Witness ==
    /\ pc = "rededuplicated"
    /\ Len(records) = 3
    /\ Len(deduplicated_records) = 2
    /\ Len(rededuplicated.weekly) = 2
    /\ Len(rededuplicated.gaming) = 2

(***************************************************************************)
(* Scoring runs.                                                           *)
(***************************************************************************)
MaxScoreRecords == 2
MaxParticipants == 22

ScoreTracks == {"trackX", "trackA", "trackM"}
ScoreRanks ==
    {<<"1">>, <<"2">>, <<"3">>, <<"4">>, <<"5">>, <<"6">>, <<"1", "0">>,
     <<>>, <<"D", "N", "F">>}

ScoreFeed ==
    [login : {"alice"}, nick : {"n"}, track : ScoreTracks,
     rank : ScoreRanks, date : {0}]

\* challenge_info as the query of get_challenge_info_cache returns it (only
\* rows with total_records > 0): trackX has 1 participant, trackA has 20,
\* trackM has 3 or 12 or no row.
ChallengeInfos ==
    {[t \in {"trackX", "trackA"} |-> IF t = "trackX" THEN 1 ELSE 20]}
    \cup {[t \in ScoreTracks |->
              IF t = "trackX" THEN 1 ELSE IF t = "trackA" THEN 20 ELSE n]
          : n \in {3, 12}}

\* get_challenge_info_cache()
LoadChallengeInfo(infos) ==
    /\ pc = "load"
    /\ records = <<>>
    /\ challenge_cache = <<>>
    /\ \E info \in infos : challenge_cache' = info
    /\ UNCHANGED <<records, pc, latest_nicks_cache, dedupOut, scoreOut, boardOut, rivalOut, analyzeOut, nickOut, storeOut>>

\* get_competition_multiplier called on one argument.
ApplyMultiplier ==
    /\ pc = "load"
    /\ records = <<>>
    /\ challenge_cache = <<>>
    /\ \E arg \in {<<>>} \cup {<<n>> : n \in -2..MaxParticipants} :
           multiplier' = [arg |-> arg, result |-> get_competition_multiplier(arg)]
    /\ pc' = "multiplied"
    /\ UNCHANGED <<records, latest_nicks_cache, challenge_cache, dedupOut,
                   points, rescored, boardOut, rivalOut, analyzeOut, nickOut, storeOut>>

\* points = calculate_points(recent_records, challenge_cache)
ScorePlayer ==
    /\ pc = "load"
    /\ challenge_cache # <<>>
    /\ points' = calculate_points(records, challenge_cache)
    /\ pc' = "scored"
    /\ UNCHANGED <<records, latest_nicks_cache, challenge_cache, dedupOut,
                   rescored, multiplier, boardOut, rivalOut, analyzeOut, nickOut, storeOut>>

\* calculate_points on the same records with one rank-1 record put in.
ScoreWithOneMore ==
    /\ pc = "scored"
    /\ \E r \in {x \in ScoreFeed : x.rank = <<"1">>} : \E k \in 0..Len(records) :
           rescored' =
               [added |-> r,
                result |-> calculate_points(
                               SubSeq(records, 1, k) \o <<r>>
                                   \o SubSeq(records, k + 1, Len(records)),
                               challenge_cache)]
    /\ pc' = "rescored"
    /\ UNCHANGED <<records, latest_nicks_cache, challenge_cache, dedupOut,
                   points, multiplier, boardOut, rivalOut, analyzeOut, nickOut, storeOut>>

NextScore ==
    \/ LoadChallengeInfo(ChallengeInfos)
    \/ ApplyMultiplier
    \/ (challenge_cache # <<>> /\ FetchRow(ScoreFeed, MaxScoreRecords))
    \/ ScorePlayer
    \/ ScoreWithOneMore

SpecScore == Init /\ [][NextScore]_vars

(***************************************************************************)
(* Claims about the multiplier and the points.                             *)
(***************************************************************************)
\* C3: the multiplier is the step function of total_participants: None or
\* <= 0 gives 0.5, 1 gives 0.1, 2..4 gives 0.2, 5..9 gives 0.4, 10..14 gives
\* 0.6, 15..19 gives 0.8, >= 20 gives 1.0.
C3_MultiplierSteps ==
    pc = "multiplied" =>
        LET a == multiplier.arg
            m == multiplier.result
        IN  /\ (a = <<>> \/ a[1] <= 0) => m = 50
            /\ a # <<>> =>
                   /\ a[1] = 1 => m = 10
                   /\ a[1] \in 2..4 => m = 20
                   /\ a[1] \in 5..9 => m = 40
                   /\ a[1] \in 10..14 => m = 60
                   /\ a[1] \in 15..19 => m = 80
                   /\ a[1] >= 20 => m = 100

\* C3 witness: the function has been applied at the last step, 20.
C3_Witness ==
    /\ pc = "multiplied"
    /\ multiplier.arg = <<20>>
    /\ multiplier.result = 100

\* The base points as the claim tabulates them.
ClaimBasePoints(rank) ==
    IF rank = <<>> THEN 0
    ELSE IF ~IsDigit(rank) THEN 1
    ELSE LET v == IntBodyVal(rank, 0) IN
         IF v = 1 THEN 5
         ELSE IF v \in 2..3 THEN 3
         ELSE IF v \in 4..5 THEN 2
         ELSE 1

\* The multiplier of a track as the claim tabulates it, in tenths.
ClaimMultiplier(cache, track) ==
    IF track \notin DOMAIN cache THEN 5
    ELSE LET n == cache[track] IN
         IF n <= 0 THEN 5
         ELSE IF n = 1 THEN 1
         ELSE IF n \in 2..4 THEN 2
         ELSE IF n \in 5..9 THEN 4
         ELSE IF n \in 10..14 THEN 6
         ELSE IF n \in 15..19 THEN 8
         ELSE 10

RECURSIVE ClaimTotal(_, _)
ClaimTotal(recs, cache) ==
    IF recs = <<>> THEN 0
    ELSE ClaimBasePoints(Head(recs).rank) * ClaimMultiplier(cache, Head(recs).track)
             + ClaimTotal(Tail(recs), cache)

\* C4: calculate_points returns the sum over the records of base_points x
\* multiplier(participants of the record's track), base points 5 / 3 / 2 / 1
\* by rank band, 1 for non-empty non-numeric, 0 for empty, 0.5 for a track
\* without competition info; the total is a whole number of tenths.
C4_PointsSum ==
    pc \in {"scored", "rescored"} =>
        /\ ~points.raised
        /\ points.points = ClaimTotal(records, challenge_cache)

\* C4 witness: rank 3 on the 20-participant track (3.0) and a non-numeric rank
\* on a track without competition info (0.5) score 3.5.
C4_Witness ==
    /\ pc = "scored"
    /\ "trackM" \notin DOMAIN challenge_cache
    /\ Len(records) = 2
    /\ records[1].track = "trackA" /\ records[1].rank = <<"3">>
    /\ records[2].track = "trackM" /\ records[2].rank = <<"D", "N", "F">>
    /\ points.points = 35

\* C5: one more rank-1 record on a 20-participant track raises the score by
\* exactly 5.0, one on a 1-participant track by exactly 0.5 (in tenths).
C5_RankOneGain ==
    pc = "rescored" =>
        LET n == CacheGet(challenge_cache, rescored.added.track)
            gain == rescored.result.points - points.points
        IN  /\ ~rescored.result.raised
            /\ rescored.added.rank = <<"1">>
            /\ n = <<20>> => gain = 50
            /\ n = <<1>> => gain = 5

\* C5 witness: a second rank-1 record on the 20-participant track, put into
\* a record sequence that already holds one, adds 5.0.
C5_Witness ==
    /\ pc = "rescored"
    /\ Len(records) = 2
    /\ records[1].track = "trackA" /\ records[1].rank = <<"1">>
    /\ records[2].track = "trackX" /\ records[2].rank = <<"1">>
    /\ rescored.added.track = "trackA"
    /\ points.points = 55
    /\ rescored.result.points = 105

(***************************************************************************)
(* Leaderboard (gaming_leaderboard.py 177-227 and 485-562).                *)
(* The date of a row is the number of the reporting window it falls in.    *)
(***************************************************************************)
MaxBoardRows == 4

\* The roster, in the order of the list of lines 35-65.
player_logins == <<"alice", "bob", "carol">>

RosterIndex(login) == CHOOSE i \in 1..Len(player_logins) : player_logins[i] = login

\* get_previous_week_date_range and get_weekly_date_range
PreviousWindow == 1
CurrentWindow == 2

RECURSIVE SelectRows(_, _, _)
SelectRows(rows, login, window) ==
    IF rows = <<>> THEN <<>>
    ELSE IF Head(rows).login = login /\ Head(rows).date = window
         THEN <<Head(rows)>> \o SelectRows(Tail(rows), login, window)
         ELSE SelectRows(Tail(rows), login, window)

\* get_player_records_from_db: the rows of one login in one window, in the
\* order of the table (RecordDate DESC).
get_player_records_from_db(login, window) == SelectRows(records, login, window)

RECURSIVE LatestNickLoop(_, _, _)
LatestNickLoop(latest_nick, latest_date, rest) ==
    IF rest = <<>> THEN latest_nick
    ELSE IF Head(rest).nick # "" /\ Head(rest).date > latest_date
         THEN LatestNickLoop(Head(rest).nick, Head(rest).date, Tail(rest))
         ELSE LatestNickLoop(latest_nick, latest_date, Tail(rest))

\* get_latest_nickname_for_login (lines 198-207 and 508-517); the empty text
\* latest_date starts from sorts below every date.
get_latest_nickname_for_login(login, recs) == LatestNickLoop(login, -1, recs)

\* r.get('Rank', '').isdigit() and 1 <= int(r.get('Rank', '0')) <= top
RankWithin(rank_str, top) ==
    IsDigit(rank_str) /\ 1 <= PyInt(rank_str).val /\ PyInt(rank_str).val <= top

\* sum(1 for r in recs if ... <= top)
CountWithin(recs, top) ==
    Cardinality({i \in 1..Len(recs) : RankWithin(recs[i].rank, top)})

RECURSIVE SumRanks(_)
SumRanks(recs) ==
    IF recs = <<>> THEN 0
    ELSE (IF IsDigit(Head(recs).rank) THEN PyInt(Head(recs).rank).val ELSE 0)
             + SumRanks(Tail(recs))

\* Lines 519-533: the row of one player from the deduplicated records.  The
\* float avg_rank is kept as <<sum of numeric ranks, number of numeric ranks>>.
PlayerRow(login, recs, cache) ==
    [nickname |-> get_latest_nickname_for_login(login, recs),
     top5 |-> CountWithin(recs, 5),
     top3 |-> CountWithin(recs, 3),
     top1 |-> Cardinality({i \in 1..Len(recs) : recs[i].rank = <<"1">>}),
     total_records |-> Len(recs),
     avg_rank |-> <<SumRanks(recs),
                    Cardinality({i \in 1..Len(recs) : IsDigit(recs[i].rank)})>>,
     points |-> calculate_points(recs, cache).points,
     login |-> login]

\* The roster loop without the 'if not recent_records: continue' of lines
\* 188-189 and 501-502.
RECURSIVE TableLoopAll(_, _, _)
TableLoopAll(logins, window, cache) ==
    IF logins = <<>> THEN <<>>
    ELSE LET login == Head(logins)
             recs == get_player_records_from_db(login, window)
             row == PlayerRow(login, deduplicate_player_records(recs), cache)
         IN  <<IF window = PreviousWindow
               THEN [row EXCEPT !.avg_rank = <<0, 0>>] ELSE row>>
                 \o TableLoopAll(Tail(logins), window, cache)

\* The loops of lines 184-215 and 497-533 over the roster: a login without a
\* row in the window is passed over; the row of the previous window carries
\* 0 for avg_rank (line 215).
RECURSIVE TableLoop(_, _, _)
TableLoop(logins, window, cache) ==
    IF logins = <<>> THEN <<>>
    ELSE LET login == Head(logins)
             recs == get_player_records_from_db(login, window)
             rest == TableLoop(Tail(logins), window, cache)
         IN  IF recs = <<>> THEN rest
             ELSE LET row == PlayerRow(login, deduplicate_player_records(recs), cache)
                  IN  <<IF window = PreviousWindow
                        THEN [row EXCEPT !.avg_rank = <<0, 0>>] ELSE row>> \o rest

\* A None rank left by the deduplication makes .isdigit() raise (lines 212,
\* 466, 522).
TableRaises(window) ==
    \E k \in 1..Len(player_logins) :
        LET recs == deduplicate_player_records(
                        get_player_records_from_db(player_logins[k], window))
        IN  \E i \in 1..Len(recs) : recs[i].rank = NoneRank

\* The sort key of lines 218 and 536: (points, top1, top3, top5).
SortKey(row) == <<row.points, row.top1, row.top3, row.top5>>

\* Python's tuple comparison a < b.
RECURSIVE TupleLess(_, _)
TupleLess(a, b) ==
    IF a = <<>> THEN b # <<>>
    ELSE IF b = <<>> THEN FALSE
    ELSE IF Head(a) # Head(b) THEN Head(a) < Head(b)
    ELSE TupleLess(Tail(a), Tail(b))

\* list.sort(): stable, ascending.  Each element goes behind the elements
\* already placed whose key is not greater.
RECURSIVE StableSort(_)
StableSort(rows) ==
    IF rows = <<>> THEN <<>>
    ELSE LET x == rows[Len(rows)]
             sorted == StableSort(SubSeq(rows, 1, Len(rows) - 1))
             n == Cardinality({i \in 1..Len(sorted) :
                                  ~TupleLess(SortKey(x), SortKey(sorted[i]))})
         IN  SubSeq(sorted, 1, n) \o <<x>> \o SubSeq(sorted, n + 1, Len(sorted))

\* sorted(rows, key)[::-1]: descending, rows of equal key in reverse order.
SortThenReverse(rows) == Reverse(StableSort(rows))

\* list.sort(key, reverse=True): the list is reversed, sorted and reversed
\* again, which keeps rows of equal key in their original order.
SortReverse(rows) == Reverse(StableSort(Reverse(rows)))

\* Lines 220-224: login -> 1-based position.
Rankings(table) ==
    [login \in {table[i].login : i \in 1..Len(table)} |->
        CHOOSE i \in 1..Len(table) :
            /\ table[i].login = login
            /\ \A j \in (i + 1)..Len(table) : table[j].login # login]

\* prev_rankings.get(login, None)
RankingGet(rankings, login) ==
    IF login \in DOMAIN rankings THEN <<rankings[login]>> ELSE <<>>

\* TrendOf with the difference taken the other way round.
TrendOfFlipped(current_rank, prev_rank) ==
    IF prev_rank # <<>>
    THEN LET trend_change == current_rank - prev_rank[1] IN
         IF trend_change > 0 THEN [symbol |-> "UP", n |-> trend_change]
         ELSE IF trend_change < 0 THEN [symbol |-> "DOWN", n |-> 0 - trend_change]
         ELSE [symbol |-> "SAME", n |-> 0]
    ELSE [symbol |-> "NEW", n |-> 0]

\* Lines 543-557.  "UP" is the up triangle with (n), "DOWN" the down triangle
\* with (n), "SAME" the solid square.
TrendOf(current_rank, prev_rank) ==
    IF prev_rank # <<>>
    THEN LET trend_change == prev_rank[1] - current_rank IN
         IF trend_change > 0 THEN [symbol |-> "UP", n |-> trend_change]
         ELSE IF trend_change < 0 THEN [symbol |-> "DOWN", n |-> 0 - trend_change]
         ELSE [symbol |-> "SAME", n |-> 0]
    ELSE [symbol |-> "NEW", n |-> 0]

\* Lines 539-559.
WithTrends(table, rankings) ==
    [i \in 1..Len(table) |->
        [nickname |-> table[i].nickname, top5 |-> table[i].top5,
         top3 |-> table[i].top3, top1 |-> table[i].top1,
         total_records |-> table[i].total_records,
         avg_rank |-> table[i].avg_rank, points |-> table[i].points,
         trend |-> TrendOf(i, RankingGet(rankings, table[i].login))]]

\* The rows a login can have in a window: rank 1 on trackX (0.5 points, one
\* top-1), rank 6 on trackM (0.5 points, no top-5), rank 1 on trackM (2.5).
BoardRows ==
    {[track |-> "trackX", rank |-> <<"1">>],
     [track |-> "trackM", rank |-> <<"6">>],
     [track |-> "trackM", rank |-> <<"1">>]}

BoardFeed ==
    {[login |-> player_logins[i], nick |-> "n", track |-> row.track,
      rank |-> row.rank, date |-> window] :
        i \in 1..Len(player_logins), row \in BoardRows,
        window \in {PreviousWindow, CurrentWindow}}

\* trackX has 1 participant, trackM has no row in challenge_info.
BoardChallengeInfos == {[t \in {"trackX"} |-> 1]}

\* One more row of the table.  Rows are held in RecordDate DESC order; rows of
\* different logins never meet in one query, so within a window they are
\* taken in roster order.
FetchBoardRow ==
    /\ pc = "load"
    /\ challenge_cache # <<>>
    /\ Len(records) < MaxBoardRows
    /\ \E r \in BoardFeed :
           /\ records # <<>> =>
                  LET last == records[Len(records)] IN
                  \/ last.date > r.date
                  \/ /\ last.date = r.date
                     /\ RosterIndex(last.login) <= RosterIndex(r.login)
           /\ records' = Append(records, r)
    /\ UNCHANGED <<pc, latest_nicks_cache, challenge_cache, dedupOut, scoreOut,
                   boardOut, rivalOut, analyzeOut, nickOut, storeOut>>

\* The script from line 493 to line 562.
GenerateLeaderboard ==
    /\ pc = "load"
    /\ challenge_cache # <<>>
    /\ IF TableRaises(PreviousWindow) \/ TableRaises(CurrentWindow)
       THEN /\ pc' = "crashed"
            /\ UNCHANGED boardOut
       ELSE LET prev == SortReverse(
                            TableLoop(player_logins, PreviousWindow, challenge_cache))
                table == SortReverse(
                             TableLoop(player_logins, CurrentWindow, challenge_cache))
            IN  /\ prev_player_table' = prev
                /\ prev_rankings' = Rankings(prev)
                /\ player_table' = table
                /\ player_table_with_trends' = WithTrends(table, Rankings(prev))
                /\ pc' = "ranked"
    /\ UNCHANGED <<records, latest_nicks_cache, challenge_cache, dedupOut, scoreOut,
                   rivalOut, analyzeOut, nickOut, storeOut>>

NextBoard ==
    \/ LoadChallengeInfo(BoardChallengeInfos)
    \/ FetchBoardRow
    \/ GenerateLeaderboard

SpecBoard == Init /\ [][NextBoard]_vars

(***************************************************************************)
(* Claims about the leaderboard.                                           *)
(***************************************************************************)
\* Row a is not behind row b in the order (points, count of rank 1, count of
\* rank <= 3, count of rank <= 5), descending.
KeyNotBelow(a, b) ==
    \/ a.points > b.points
    \/ /\ a.points = b.points
       /\ \/ a.top1 > b.top1
          \/ /\ a.top1 = b.top1
             /\ \/ a.top3 > b.top3
                \/ a.top3 = b.top3 /\ a.top5 >= b.top5

KeyEqual(a, b) ==
    a.points = b.points /\ a.top1 = b.top1 /\ a.top3 = b.top3 /\ a.top5 = b.top5

OrderedAndStable(table) ==
    \A i, j \in 1..Len(table) :
        i < j =>
            /\ KeyNotBelow(table[i], table[j])
            /\ KeyEqual(table[i], table[j])
                   => RosterIndex(table[i].login) < RosterIndex(table[j].login)

PositionIn(table, login) ==
    IF \E i \in 1..Len(table) : table[i].login = login
    THEN CHOOSE i \in 1..Len(table) : table[i].login = login
    ELSE 0

\* C7: with c the position in the current order and p the position in the
\* previous window's order, the trend is up(p - c) when c < p, down(c - p)
\* when c > p, unchanged when c = p, and new exactly when the player has no
\* entry in the previous window; N in up(N) / down(N) is >= 1.
C7_Trend ==
    pc = "ranked" =>
        /\ Len(player_table_with_trends) = Len(player_table)
        /\ \A c \in 1..Len(player_table) :
               LET login == player_table[c].login
                   trend == player_table_with_trends[c].trend
                   p == PositionIn(prev_player_table, login)
                   hadRows == \E k \in 1..Len(records) :
                                  /\ records[k].login = login
                                  /\ records[k].date = PreviousWindow
               IN  /\ hadRows <=> p > 0
                   /\ trend.symbol = "NEW" <=> ~hadRows
                   /\ (hadRows /\ c < p) => trend = [symbol |-> "UP", n |-> p - c]
                   /\ (hadRows /\ c > p) => trend = [symbol |-> "DOWN", n |-> c - p]
                   /\ (hadRows /\ c = p) => trend.symbol = "SAME"
                   /\ trend.symbol \in {"UP", "DOWN"} => trend.n >= 1

\* C7 witness: alice led bob in the previous window and bob leads alice now.
C7_Witness ==
    /\ pc = "ranked"
    /\ Len(prev_player_table) = 2
    /\ prev_player_table[1].login = "alice"
    /\ prev_player_table[2].login = "bob"
    /\ Len(player_table) = 2
    /\ player_table[1].login = "bob"
    /\ player_table_with_trends[1].trend = [symbol |-> "UP", n |-> 1]
    /\ player_table[2].login = "alice"
    /\ player_table_with_trends[2].trend = [symbol |-> "DOWN", n |-> 1]

\* The login has a row in the window.
HasRecordIn(login, window) ==
    \E k \in 1..Len(records) : records[k].login = login /\ records[k].date = window

EntriesOf(table, login) == {i \in 1..Len(table) : table[i].login = login}

\* C20: a roster player without a record in the current window has no entry
\* in the current leaderboard and no trend; every entry is that of a roster
\* player with a record in the window, each such player has exactly one
\* entry, and the trends are those of the entries, one each.
C20_AbsentPlayerOmitted ==
    pc = "ranked" =>
        /\ \A k \in 1..Len(player_logins) :
               Cardinality(EntriesOf(player_table, player_logins[k]))
                   = IF HasRecordIn(player_logins[k], CurrentWindow) THEN 1 ELSE 0
        /\ \A i \in 1..Len(player_table) :
               /\ \E k \in 1..Len(player_logins) : player_logins[k] = player_table[i].login
               /\ HasRecordIn(player_table[i].login, CurrentWindow)
        /\ Len(player_table_with_trends) = Len(player_table)
        /\ \A i \in 1..Len(player_table) :
               /\ player_table_with_trends[i].nickname = player_table[i].nickname
               /\ player_table_with_trends[i].points = player_table[i].points

\* C20 witness: carol was on the previous leaderboard and has no record in
\* the current window; alice and bob make up the current leaderboard.
C20_Witness ==
    /\ pc = "ranked"
    /\ HasRecordIn("carol", PreviousWindow)
    /\ ~HasRecordIn("carol", CurrentWindow)
    /\ "carol" \in DOMAIN prev_rankings
    /\ Len(player_table) = 2
    /\ Len(player_table_with_trends) = 2
    /\ EntriesOf(player_table, "alice") # {}
    /\ EntriesOf(player_table, "bob") # {}

(***************************************************************************)
(* Rivalries (weekly_team_stats.py 161-288, called from 1343-1351).        *)
(***************************************************************************)
MaxRivalTracks == 3

\* The login left out of every pairing (line 217).
ExcludedLogin == "yogeshdeshwari"

\* Python orders str by code point: capitals before small letters.
NameOrder == <<"Al", "Bob", "Cy", "Zoe", "alice", "bob", "carol", "yogeshdeshwari">>

NameIndex(name) == CHOOSE i \in 1..Len(NameOrder) : NameOrder[i] = name

\* a < b of two str
StrLess(a, b) == NameIndex(a) < NameIndex(b)

\* d.get(k, default)
DictGet(d, k, default) == IF k \in DOMAIN d THEN d[k] ELSE default

\* d[k] = v
DictPut(d, k, v) == [x \in (DOMAIN d) \cup {k} |-> IF x = k THEN v ELSE d[x]]

\* str(n) of a non-negative int, as it stands in an f-string.
RECURSIVE PyStr(_)
PyStr(n) ==
    LET digit == CHOOSE c \in Digits : DigitVal(c) = n % 10
    IN  IF n < 10 THEN <<digit>> ELSE PyStr(n \div 10) \o <<digit>>

\* The loop of get_all_latest_nicknames (lines 169-174).
RECURSIVE NicknamesLoop(_, _, _)
NicknamesLoop(login_to_nick, login_to_latest_date, rest) ==
    IF rest = <<>> THEN login_to_nick
    ELSE LET record == Head(rest)
             login == record.login
         IN  IF /\ record.nick # ""
                /\ \/ login \notin DOMAIN login_to_latest_date
                   \/ record.date > login_to_latest_date[login]
             THEN NicknamesLoop(DictPut(login_to_nick, login, record.nick),
                                DictPut(login_to_latest_date, login, record.date),
                                Tail(rest))
             ELSE NicknamesLoop(login_to_nick, login_to_latest_date, Tail(rest))

\* A lookup that computes the mapping anew on every call.
get_all_latest_nicknames_uncached(cache, recs) == NicknamesLoop(<<>>, <<>>, recs)

\* get_all_latest_nicknames: cache is <<>> for None, <<mapping>> once set; the
\* mapping of the first call is returned ever after.
get_all_latest_nicknames(cache, recs) ==
    IF cache # <<>> THEN cache[1] ELSE NicknamesLoop(<<>>, <<>>, recs)

TrackIndex(track_records, track) ==
    IF \E i \in 1..Len(track_records) : track_records[i].track = track
    THEN CHOOSE i \in 1..Len(track_records) : track_records[i].track = track
    ELSE 0

\* Lines 190-202: the records grouped by track in order of first appearance.
\* int(rank) raising drops the record (except: continue); an empty or None
\* rank counts as 999.
RECURSIVE GroupByTrack(_, _)
GroupByTrack(track_records, rest) ==
    IF rest = <<>> THEN track_records
    ELSE LET record == Head(rest)
             parsed == PyInt(record.rank)
         IN  IF Truthy(record.rank) /\ ~parsed.ok
             THEN GroupByTrack(track_records, Tail(rest))
             ELSE LET rank_int == IF Truthy(record.rank) THEN parsed.val ELSE WorstRank
                      entry == [login |-> record.login, nick |-> record.nick,
                                rank |-> rank_int]
                      i == TrackIndex(track_records, record.track)
                  IN  GroupByTrack(
                          IF i = 0
                          THEN Append(track_records,
                                      [track |-> record.track, records_list |-> <<entry>>])
                          ELSE [track_records EXCEPT
                                    ![i].records_list = Append(@, entry)],
                          Tail(rest))

PlayerIndex(player_best, login) ==
    IF \E i \in 1..Len(player_best) : player_best[i].login = login
    THEN CHOOSE i \in 1..Len(player_best) : player_best[i].login = login
    ELSE 0

\* Lines 208-212: the best record of each player on one track, players in
\* order of first appearance.
RECURSIVE PlayerBestLoop(_, _)
PlayerBestLoop(player_best, rest) ==
    IF rest = <<>> THEN player_best
    ELSE LET record == Head(rest)
             i == PlayerIndex(player_best, record.login)
         IN  PlayerBestLoop(
                 IF i = 0 THEN Append(player_best, record)
                 ELSE IF record.rank < player_best[i].rank
                      THEN [player_best EXCEPT ![i] = record]
                      ELSE player_best,
                 Tail(rest))

RECURSIVE PlayersAll(_)
PlayersAll(player_best) ==
    IF player_best = <<>> THEN <<>>
    ELSE <<Head(player_best)>> \o PlayersAll(Tail(player_best))

\* Line 215: the players of a track without the excluded login.
RECURSIVE Players(_)
Players(player_best) ==
    IF player_best = <<>> THEN <<>>
    ELSE IF Head(player_best).login # ExcludedLogin
         THEN <<Head(player_best)>> \o Players(Tail(player_best))
         ELSE Players(Tail(player_best))

\* Line 225: tuple(sorted([p1_login, p2_login]))
rivalry_key(p1_login, p2_login) ==
    IF StrLess(p2_login, p1_login)
    THEN <<p2_login, p1_login>> ELSE <<p1_login, p2_login>>

RECURSIVE PairsLoop(_, _, _)
PairsLoop(players, i, j) ==
    IF i > Len(players) THEN <<>>
    ELSE IF j > Len(players) THEN PairsLoop(players, i + 1, i + 2)
    ELSE <<[p1 |-> players[i], p2 |-> players[j],
            key |-> rivalry_key(players[i].login, players[j].login)]>>
             \o PairsLoop(players, i, j + 1)

RECURSIVE OrderedPairsLoop(_, _, _)
OrderedPairsLoop(players, i, j) ==
    IF i > Len(players) THEN <<>>
    ELSE IF j > Len(players) THEN OrderedPairsLoop(players, i + 1, 1)
    ELSE (IF i = j THEN <<>>
          ELSE <<[p1 |-> players[i], p2 |-> players[j],
                  key |-> <<players[i].login, players[j].login>>]>>)
             \o OrderedPairsLoop(players, i, j + 1)

\* PlayerPairs going through every ordered pair, the key left as it comes.
PlayerPairsBothWays(players) == OrderedPairsLoop(players, 1, 1)

\* Lines 216-225: the pairs i < j in loop order, each with its rivalry_key.
PlayerPairs(players) == PairsLoop(players, 1, 2)

KeyPos(data, key) ==
    IF \E i \in 1..Len(data) : data[i].key = key
    THEN CHOOSE i \in 1..Len(data) : data[i].key = key
    ELSE 0

\* rivalry_data[rivalry_key][track][login] += 1 on the nested defaultdicts:
\* the key and the track come into being with the first win written.
AddWin(data, key, track, login) ==
    LET withKey == IF KeyPos(data, key) = 0
                   THEN Append(data, [key |-> key, track_data |-> <<>>])
                   ELSE data
        k == KeyPos(withKey, key)
        td == withKey[k].track_data
        withTrack == IF TrackIndex(td, track) = 0
                     THEN Append(td, [track |-> track, wins |-> <<>>])
                     ELSE td
        t == TrackIndex(withTrack, track)
        wins == withTrack[t].wins
    IN  [withKey EXCEPT ![k].track_data =
            [withTrack EXCEPT ![t].wins =
                DictPut(wins, login, DictGet(wins, login, 0) + 1)]]

\* Lines 218-232: the lower rank takes the win, equal ranks write nothing.
RECURSIVE CompareLoop(_, _, _)
CompareLoop(data, track, pairs) ==
    IF pairs = <<>> THEN data
    ELSE LET pair == Head(pairs)
         IN  CompareLoop(
                 IF pair.p1.rank < pair.p2.rank
                 THEN AddWin(data, pair.key, track, pair.p1.login)
                 ELSE IF pair.p2.rank < pair.p1.rank
                      THEN AddWin(data, pair.key, track, pair.p2.login)
                      ELSE data,
                 track, Tail(pairs))

\* Lines 205-232.
RECURSIVE HeadToHeadLoop(_, _)
HeadToHeadLoop(data, track_records) ==
    IF track_records = <<>> THEN data
    ELSE LET entry == Head(track_records)
         IN  HeadToHeadLoop(
                 IF Len(entry.records_list) >= 2
                 THEN CompareLoop(data, entry.track,
                          PlayerPairs(Players(PlayerBestLoop(<<>>, entry.records_list))))
                 ELSE data,
                 Tail(track_records))

\* rivalry_data at line 234.
RivalryData(recs) == HeadToHeadLoop(<<>>, GroupByTrack(<<>>, recs))

\* sum(track_wins.get(login, 0) for track_wins in track_data.values())
RECURSIVE TotalWins(_, _)
TotalWins(track_data, login) ==
    IF track_data = <<>> THEN 0
    ELSE DictGet(Head(track_data).wins, login, 0)
             + TotalWins(Tail(track_data), login)

\* RivalryEntry with the wins left in the order of the rivalry key.
RivalryEntryKeyOrder(entry, login_to_nick) ==
    LET login1 == entry.key[1]
        login2 == entry.key[2]
        total_wins_login1 == TotalWins(entry.track_data, login1)
        total_wins_login2 == TotalWins(entry.track_data, login2)
        nick1 == DictGet(login_to_nick, login1, login1)
        nick2 == DictGet(login_to_nick, login2, login2)
        first == IF total_wins_login1 > total_wins_login2 THEN TRUE
                 ELSE IF total_wins_login2 > total_wins_login1 THEN FALSE
                 ELSE StrLess(nick1, nick2)
    IN  [player1 |-> IF first THEN nick1 ELSE nick2,
         player2 |-> IF first THEN nick2 ELSE nick1,
         shared_tracks |-> Len(entry.track_data),
         p1_wins |-> total_wins_login1,
         p2_wins |-> total_wins_login2,
         leader |-> IF total_wins_login1 > total_wins_login2 THEN nick1
                    ELSE IF total_wins_login2 > total_wins_login1 THEN nick2
                    ELSE "Tied",
         score |-> PyStr(total_wins_login1) \o <<"-">> \o PyStr(total_wins_login2),
         tracks |-> [i \in 1..Len(entry.track_data) |-> entry.track_data[i].track]]

\* RivalryEntry with the names of a tied pair put in the order of the logins.
RivalryEntryByLogin(entry, login_to_nick) ==
    LET login1 == entry.key[1]
        login2 == entry.key[2]
        total_wins_login1 == TotalWins(entry.track_data, login1)
        total_wins_login2 == TotalWins(entry.track_data, login2)
        nick1 == DictGet(login_to_nick, login1, login1)
        nick2 == DictGet(login_to_nick, login2, login2)
        first == IF total_wins_login1 > total_wins_login2 THEN TRUE
                 ELSE IF total_wins_login2 > total_wins_login1 THEN FALSE
                 ELSE StrLess(login1, login2)
        player1_wins == IF first THEN total_wins_login1 ELSE total_wins_login2
        player2_wins == IF first THEN total_wins_login2 ELSE total_wins_login1
    IN  [player1 |-> IF first THEN nick1 ELSE nick2,
         player2 |-> IF first THEN nick2 ELSE nick1,
         shared_tracks |-> Len(entry.track_data),
         p1_wins |-> player1_wins,
         p2_wins |-> player2_wins,
         leader |-> IF total_wins_login1 > total_wins_login2 THEN nick1
                    ELSE IF total_wins_login2 > total_wins_login1 THEN nick2
                    ELSE "Tied",
         score |-> PyStr(player1_wins) \o <<"-">> \o PyStr(player2_wins),
         tracks |-> [i \in 1..Len(entry.track_data) |-> entry.track_data[i].track]]

\* Lines 246-286: the entry of one rivalry_key.  score is the f-string
\* "{player1_wins}-{player2_wins}".
RivalryEntry(entry, login_to_nick) ==
    LET login1 == entry.key[1]
        login2 == entry.key[2]
        total_wins_login1 == TotalWins(entry.track_data, login1)
        total_wins_login2 == TotalWins(entry.track_data, login2)
        nick1 == DictGet(login_to_nick, login1, login1)
        nick2 == DictGet(login_to_nick, login2, login2)
        first == IF total_wins_login1 > total_wins_login2 THEN TRUE
                 ELSE IF total_wins_login2 > total_wins_login1 THEN FALSE
                 ELSE StrLess(nick1, nick2)
        player1_wins == IF first THEN total_wins_login1 ELSE total_wins_login2
        player2_wins == IF first THEN total_wins_login2 ELSE total_wins_login1
    IN  [player1 |-> IF first THEN nick1 ELSE nick2,
         player2 |-> IF first THEN nick2 ELSE nick1,
         shared_tracks |-> Len(entry.track_data),
         p1_wins |-> player1_wins,
         p2_wins |-> player2_wins,
         leader |-> IF total_wins_login1 > total_wins_login2 THEN nick1
                    ELSE IF total_wins_login2 > total_wins_login1 THEN nick2
                    ELSE "Tied",
         score |-> PyStr(player1_wins) \o <<"-">> \o PyStr(player2_wins),
         tracks |-> [i \in 1..Len(entry.track_data) |-> entry.track_data[i].track]]

\* Lines 237-286: an entry for every key with shared_tracks >= 3.
RECURSIVE RivalriesLoop(_, _)
RivalriesLoop(data, login_to_nick) ==
    IF data = <<>> THEN <<>>
    ELSE (IF Len(Head(data).track_data) >= 3
          THEN <<RivalryEntry(Head(data), login_to_nick)>> ELSE <<>>)
             \o RivalriesLoop(Tail(data), login_to_nick)

\* The list as the loop of lines 237-286 left it.
Unsorted(rows) == rows

\* Line 288: sorted(rivalries, key=shared_tracks, reverse=True); entries of
\* equal shared_tracks keep their order.
RECURSIVE SortBySharedTracks(_)
SortBySharedTracks(rows) ==
    IF rows = <<>> THEN <<>>
    ELSE LET x == rows[Len(rows)]
             sorted == SortBySharedTracks(SubSeq(rows, 1, Len(rows) - 1))
             n == Cardinality({i \in 1..Len(sorted) :
                                  sorted[i].shared_tracks >= x.shared_tracks})
         IN  SubSeq(sorted, 1, n) \o <<x>> \o SubSeq(sorted, n + 1, Len(sorted))

\* WeeklyStatsGenerator.detect_rivalries
detect_rivalries(recs, login_to_nick) ==
    SortBySharedTracks(RivalriesLoop(RivalryData(recs), login_to_nick))

RivalTrackNames == <<"track1", "track2", "track3", "track4", "track5">>

RivalTrackIndex(track) ==
    CHOOSE i \in 1..Len(RivalTrackNames) : RivalTrackNames[i] = track

\* The rows a track can hold: alice (nickname Zoe) on rank 1, 2 or with a
\* rank text that is no number, bob (nickname Bob) on rank 1 or without rank.
RivalRows ==
    {[login |-> "alice", nick |-> "Zoe", rank |-> <<"1">>],
     [login |-> "alice", nick |-> "Zoe", rank |-> <<"2">>],
     [login |-> "alice", nick |-> "Zoe", rank |-> <<"D", "N", "F">>],
     [login |-> "bob", nick |-> "Bob", rank |-> <<"1">>],
     [login |-> "bob", nick |-> "Bob", rank |-> <<>>]}

\* One more row of the window.  detect_rivalries groups the rows by track in
\* order of first appearance, so the rows are taken track by track; within a
\* track the players come in any order, each with one row.
FetchRivalRow ==
    /\ pc = "load"
    /\ \E row \in RivalRows, t \in 1..MaxRivalTracks :
           /\ records # <<>> =>
                  RivalTrackIndex(records[Len(records)].track) <= t
           /\ \A i \in 1..Len(records) :
                  ~(records[i].login = row.login
                      /\ records[i].track = RivalTrackNames[t])
           /\ records' = Append(records,
                  [login |-> row.login, nick |-> row.nick,
                   track |-> RivalTrackNames[t], rank |-> row.rank, date |-> 0])
    /\ UNCHANGED <<pc, latest_nicks_cache, challenge_cache, dedupOut, scoreOut,
                   boardOut, rivalOut, analyzeOut, nickOut, storeOut>>

\* generate_rivalry_heatmap, lines 1343-1351: the rows are deduplicated and
\* handed to detect_rivalries, whose first step fills the nickname cache.
DetectRivalries ==
    /\ pc = "load"
    /\ records # <<>>
    /\ LET deduped == deduplicate_records(records)
           login_to_nick == get_all_latest_nicknames(latest_nicks_cache, deduped)
       IN  /\ deduplicated_records' = deduped
           /\ latest_nicks_cache' = <<login_to_nick>>
           /\ rivalry_data' = RivalryData(deduped)
           /\ rivalries' = detect_rivalries(deduped, login_to_nick)
    /\ pc' = "rivalries"
    /\ UNCHANGED <<records, recent_records, rededuplicated, challenge_cache,
                   scoreOut, boardOut, rivalries_without, analyzeOut, nickOut, storeOut>>

NextRivalry ==
    \/ FetchRivalRow
    \/ DetectRivalries

SpecRivalry == Init /\ [][NextRivalry]_vars

(***************************************************************************)
(* Claims about the rivalries.  They are read off the rows handed to       *)
(* detect_rivalries (deduplicated_records), rivalry_data and rivalries.    *)
(***************************************************************************)
InputTracks ==
    {deduplicated_records[i].track : i \in 1..Len(deduplicated_records)}

\* The players a rivalry can be about.
InputPlayers ==
    {deduplicated_records[i].login : i \in 1..Len(deduplicated_records)}
        \ {ExcludedLogin}

RowsOf(login, track) ==
    {i \in 1..Len(deduplicated_records) :
        /\ deduplicated_records[i].login = login
        /\ deduplicated_records[i].track = track}

\* The tracks on which both players have a record.
SharedTracks(a, b) ==
    {t \in InputTracks : RowsOf(a, t) # {} /\ RowsOf(b, t) # {}}

\* The name a login is reported under.
ReportedName(login) ==
    IF login \in DOMAIN latest_nicks_cache[1]
    THEN latest_nicks_cache[1][login] ELSE login

IsEntryOf(entry, a, b) ==
    {entry.player1, entry.player2} = {ReportedName(a), ReportedName(b)}

\* C8: detect_rivalries reports no unordered pair of players twice, whichever
\* of the two is listed first.
C8_PairReportedOnce ==
    pc = "rivalries" =>
        \A i, j \in 1..Len(rivalries) :
            i # j => {rivalries[i].player1, rivalries[i].player2}
                         # {rivalries[j].player1, rivalries[j].player2}

Precedes(a, b, track) ==
    \E i \in RowsOf(a, track) : \E j \in RowsOf(b, track) : i < j

\* C8 witness: a rivalry is reported for two players who come in one order
\* on one track and in the other order on another.
C8_Witness ==
    /\ pc = "rivalries"
    /\ Len(rivalries) = 1
    /\ IsEntryOf(rivalries[1], "alice", "bob")
    /\ \E t, u \in InputTracks :
           Precedes("alice", "bob", t) /\ Precedes("bob", "alice", u)

\* C9: a pair of non-excluded players is reported if and only if the number
\* of distinct tracks on which both have a record is >= 3, tracks with equal
\* ranks included, and the reported shared_tracks is that number.
C9_SharedTracksThreshold ==
    pc = "rivalries" =>
        \A a, b \in InputPlayers :
            a # b =>
                LET n == Cardinality(SharedTracks(a, b)) IN
                /\ n >= 3 <=> \E i \in 1..Len(rivalries) :
                                  IsEntryOf(rivalries[i], a, b)
                /\ \A i \in 1..Len(rivalries) :
                       IsEntryOf(rivalries[i], a, b)
                           => rivalries[i].shared_tracks = n

\* The best rank of a player on a track, ranks compared as numbers.
BestRank(login, track) ==
    LET ranks == {ClaimRank(deduplicated_records[i].rank) : i \in RowsOf(login, track)}
    IN  CHOOSE r \in ranks : \A q \in ranks : r <= q

\* The win the track owes to a in the pairing of a and b.
OwedWin(a, b, track) ==
    IF BestRank(a, track) < BestRank(b, track) THEN 1 ELSE 0

RECURSIVE OwedTotal(_, _, _)
OwedTotal(a, b, tracks) ==
    IF tracks = {} THEN 0
    ELSE LET t == CHOOSE x \in tracks : TRUE
         IN  OwedWin(a, b, t) + OwedTotal(a, b, tracks \ {t})

\* The wins rivalry_data holds for login on the track in the pairing of a and b.
RECURSIVE SumWins(_, _)
SumWins(cells, login) ==
    IF cells = {} THEN 0
    ELSE LET c == CHOOSE x \in cells : TRUE
             wins == rivalry_data[c[1]].track_data[c[2]].wins
         IN  (IF login \in DOMAIN wins THEN wins[login] ELSE 0)
                 + SumWins(cells \ {c}, login)

GainedWin(a, b, track, login) ==
    SumWins({c \in UNION {{<<k, t>> : t \in 1..Len(rivalry_data[k].track_data)} :
                             k \in 1..Len(rivalry_data)} :
                /\ {rivalry_data[c[1]].key[1], rivalry_data[c[1]].key[2]} = {a, b}
                /\ rivalry_data[c[1]].track_data[c[2]].track = track},
            login)

EntryWins(entry, login) ==
    IF entry.player1 = ReportedName(login) THEN entry.p1_wins ELSE entry.p2_wins

\* C10: on every track and for every pair of distinct non-excluded players
\* with a record on it, the player with the lower best rank gains exactly one
\* win for the pairing and the other none, equal ranks give no win, and the
\* pair's reported totals are the sums of these per-track wins.
C10_WinsPerTrack ==
    pc = "rivalries" =>
        \A a, b \in InputPlayers :
            a # b =>
                /\ \A t \in SharedTracks(a, b) :
                       /\ GainedWin(a, b, t, a) = OwedWin(a, b, t)
                       /\ GainedWin(a, b, t, b) = OwedWin(b, a, t)
                /\ \A i \in 1..Len(rivalries) :
                       IsEntryOf(rivalries[i], a, b) =>
                           /\ EntryWins(rivalries[i], a)
                                  = OwedTotal(a, b, SharedTracks(a, b))
                           /\ EntryWins(rivalries[i], b)
                                  = OwedTotal(b, a, SharedTracks(a, b))

(***************************************************************************)
(* Rivalries with tied totals: two players over up to MaxTieTracks tracks, *)
(* no rank tied, alice under one of two nicknames.                         *)
(***************************************************************************)
MaxTieTracks == 4

\* One more row of the window out of feed, the rows taken track by track and
\* each player with one row per track, as in FetchRivalRow.
FetchTrackRow(feed) ==
    /\ pc = "load"
    /\ \E r \in feed :
           /\ records # <<>> =>
                  RivalTrackIndex(records[Len(records)].track)
                      <= RivalTrackIndex(r.track)
           /\ \A i \in 1..Len(records) :
                  ~(records[i].login = r.login /\ records[i].track = r.track)
           /\ records' = Append(records, r)
    /\ UNCHANGED <<pc, latest_nicks_cache, challenge_cache, dedupOut, scoreOut,
                   boardOut, rivalOut, analyzeOut, nickOut, storeOut>>

\* RecordDate DESC: the rows of track1 are the newest.
TrackDate(t) == Len(RivalTrackNames) - t

\* alice on rank 1 or 3, bob on rank 2; alice is Al on a rank-1 row of track1
\* and Zoe on every other row.
TieFeed ==
    {[login |-> "alice",
      nick |-> IF t = 1 /\ rank = <<"1">> THEN "Al" ELSE "Zoe",
      track |-> RivalTrackNames[t], rank |-> rank, date |-> TrackDate(t)] :
        t \in 1..MaxTieTracks, rank \in {<<"1">>, <<"3">>}}
    \cup
    {[login |-> "bob", nick |-> "Bob", track |-> RivalTrackNames[t],
      rank |-> <<"2">>, date |-> TrackDate(t)] : t \in 1..MaxTieTracks}

NextTie ==
    \/ FetchTrackRow(TieFeed)
    \/ DetectRivalries

SpecTie == Init /\ [][NextTie]_vars

\* The names of the claims in alphabetical order.
AlphabeticalOrder == <<"Al", "Bob", "Cy", "Zoe">>

AlphabeticallyBefore(a, b) ==
    \E i, j \in 1..Len(AlphabeticalOrder) :
        i < j /\ AlphabeticalOrder[i] = a /\ AlphabeticalOrder[j] = b

\* 'x-y' for win counts below 10.
ScoreText(x, y) ==
    LET digit == <<"0", "1", "2", "3", "4", "5", "6", "7", "8", "9">>
    IN  <<digit[x + 1], "-", digit[y + 1]>>

\* The entry of the pair a, b as C11 has it, a's total being wa and b's wb.
LeaderFirst(entry, a, wa, b, wb) ==
    /\ wa > wb =>
           /\ entry.player1 = ReportedName(a)
           /\ entry.player2 = ReportedName(b)
           /\ entry.leader = ReportedName(a)
           /\ entry.p1_wins = wa /\ entry.p2_wins = wb
           /\ entry.p1_wins > entry.p2_wins
           /\ entry.score = ScoreText(wa, wb)
    /\ (wa = wb /\ AlphabeticallyBefore(ReportedName(a), ReportedName(b))) =>
           /\ entry.leader = "Tied"
           /\ entry.player1 = ReportedName(a)
           /\ entry.player2 = ReportedName(b)
           /\ entry.score = ScoreText(wa, wb)
    /\ (Cardinality(SharedTracks(a, b)) = 3 /\ wa = 2 /\ wb = 1) =>
           /\ entry.score = <<"2", "-", "1">>
           /\ entry.leader = entry.player1
           /\ entry.shared_tracks = 3

MaxExcludedTracks == 3

\* alice on rank 1 on the odd tracks and on rank 3 on the even ones, bob on
\* rank 2, the excluded login (nickname Yogi) on rank 2.
ExcludedFeed ==
    {[login |-> "alice", nick |-> "Zoe", track |-> RivalTrackNames[t],
      rank |-> IF t % 2 = 1 THEN <<"1">> ELSE <<"3">>, date |-> TrackDate(t)] :
        t \in 1..MaxExcludedTracks}
    \cup
    {[login |-> login, nick |-> IF login = "bob" THEN "Bob" ELSE "Yogi",
      track |-> RivalTrackNames[t], rank |-> <<"2">>, date |-> TrackDate(t)] :
        t \in 1..MaxExcludedTracks, login \in {"bob", ExcludedLogin}}

RECURSIVE WithoutLogin(_, _)
WithoutLogin(recs, login) ==
    IF recs = <<>> THEN <<>>
    ELSE IF Head(recs).login = login THEN WithoutLogin(Tail(recs), login)
    ELSE <<Head(recs)>> \o WithoutLogin(Tail(recs), login)

\* detect_rivalries called once more on the same generator, on the rows of
\* deduplicated_records that are not the excluded login's.
DetectWithoutExcluded ==
    /\ pc = "rivalries"
    /\ LET recs == WithoutLogin(deduplicated_records, ExcludedLogin)
           login_to_nick == get_all_latest_nicknames(latest_nicks_cache, recs)
       IN  rivalries_without' =
               [rivalry_data |-> RivalryData(recs),
                rivalries |-> detect_rivalries(recs, login_to_nick)]
    /\ pc' = "compared"
    /\ UNCHANGED <<records, latest_nicks_cache, challenge_cache, dedupOut,
                   scoreOut, boardOut, rivalry_data, rivalries, analyzeOut, nickOut, storeOut>>

NextExcluded ==
    \/ FetchTrackRow(ExcludedFeed)
    \/ DetectRivalries
    \/ DetectWithoutExcluded

SpecExcluded == Init /\ [][NextExcluded]_vars

MaxMalformedRecords == 2

\* Rows of alice and bob on trackX in the current window, the rank a number,
\* NULL or a text that is no number.
MalformedFeed ==
    [login : {"alice", "bob"}, nick : {"n"}, track : {"trackX"},
     rank : {<<"1">>, NoneRank, <<"D", "N", "F">>}, date : {CurrentWindow}]

NextMalformed ==
    \/ LoadChallengeInfo(BoardChallengeInfos)
    \/ challenge_cache # <<>> /\ FetchRow(MalformedFeed, MaxMalformedRecords)
    \/ challenge_cache # <<>> /\ Deduplicate
    \/ ScorePlayer
    \/ GenerateLeaderboard
    \/ DetectRivalries

SpecMalformed == Init /\ [][NextMalformed]_vars

\* A rank that is non-numeric, empty or absent.
Malformed(rank) == rank = NoneRank \/ ~IsDigit(rank)

\* C13: no core operation raises on a record whose rank is non-numeric, empty
\* or absent; the rank is compared as 999 and every other record is still
\* processed: calculate_points returns, the leaderboard with its rank-1,
\* top-3 and top-5 counts is produced, and in detect_rivalries a player with
\* a numeric rank wins the track against a player with a malformed one.
C13_MalformedRankHandled ==
    /\ pc = "scored" => ~points.raised
    /\ pc # "crashed"
    /\ pc = "deduplicated" =>
           /\ BestPerKey(deduplicated_records, records)
           /\ BestPerKey(recent_records, records)
    /\ pc = "rivalries" =>
           \A a, b \in InputPlayers : \A t \in SharedTracks(a, b) :
               BestRank(a, t) < BestRank(b, t) => GainedWin(a, b, t, a) = 1

(***************************************************************************)
(* Further claims about the deduplication (runs of SpecDedup).             *)
(***************************************************************************)
\* The first of the records of in that have the key of r and the lowest
\* coerced rank of that key.
FirstOfBest(in, r) ==
    CHOOSE k \in 1..Len(in) :
        /\ SameKey(in[k], r)
        /\ \A j \in 1..Len(in) :
               SameKey(in[j], r) =>
                   /\ ClaimRank(in[k].rank) <= ClaimRank(in[j].rank)
                   /\ j < k => ClaimRank(in[k].rank) < ClaimRank(in[j].rank)

KeepsFirstOfBest(out, in) ==
    \A i \in 1..Len(out) : out[i] = in[FirstOfBest(in, out[i])]

IsInputRecord(r, in) == \E k \in 1..Len(in) : r = in[k]

\* C16: deduplication leaves the input sequence and its records as they
\* were, and every output record is one of the input records with all its
\* fields as given, a non-numeric rank included.
C16_DedupFrame ==
    [][(pc = "load" /\ pc' = "deduplicated") =>
          /\ records' = records
          /\ \A i \in 1..Len(deduplicated_records') :
                 IsInputRecord(deduplicated_records'[i], records)
          /\ \A i \in 1..Len(recent_records') :
                 IsInputRecord(recent_records'[i], records)]_vars

\* C16 witness: the kept record of a key carries a rank text that is no
\* number, a numeric rank being kept for another key.
C16_Witness ==
    /\ pc = "deduplicated"
    /\ Len(deduplicated_records) = 2
    /\ deduplicated_records[1].rank = <<"D", "N", "F">>
    /\ deduplicated_records[2].rank = <<"3">>
    /\ recent_records = deduplicated_records

(***************************************************************************)
(* Rivalries of three players: alice on every track, bob and carol on some *)
(* of them, up to MaxSortTracks tracks.                                    *)
(***************************************************************************)
MaxSortTracks == 4

SortNick(login) ==
    IF login = "alice" THEN "Zoe" ELSE IF login = "bob" THEN "Bob" ELSE "Cy"

\* alice holds rank 1, bob rank 2, carol rank 3.
SortRank(login) ==
    IF login = "alice" THEN <<"1">> ELSE IF login = "bob" THEN <<"2">> ELSE <<"3">>

\* The players of one track in the order of their rows.
TrackLineups ==
    {<<"alice">>,
     <<"alice", "bob">>, <<"bob", "alice">>,
     <<"alice", "carol">>, <<"carol", "alice">>,
     <<"alice", "bob", "carol">>, <<"bob", "carol", "alice">>,
     <<"carol", "alice", "bob">>}

\* The rows of the next track come back from the query.
FetchTrackLineup ==
    /\ pc = "load"
    /\ LET t == IF records = <<>> THEN 1
                ELSE RivalTrackIndex(records[Len(records)].track) + 1
       IN  /\ t <= MaxSortTracks
           /\ \E lineup \in TrackLineups :
                  records' = records \o
                      [i \in 1..Len(lineup) |->
                          [login |-> lineup[i], nick |-> SortNick(lineup[i]),
                           track |-> RivalTrackNames[t],
                           rank |-> SortRank(lineup[i]), date |-> TrackDate(t)]]
    /\ UNCHANGED <<pc, latest_nicks_cache, challenge_cache, dedupOut, scoreOut,
                   boardOut, rivalOut, analyzeOut, nickOut, storeOut>>

NextSort ==
    \/ FetchTrackLineup
    \/ DetectRivalries

SpecSort == Init /\ [][NextSort]_vars

\* C17: the list detect_rivalries returns is in descending order of
\* shared_tracks.
C17_SortedBySharedTracks ==
    pc = "rivalries" =>
        \A i \in 1..(Len(rivalries) - 1) :
            rivalries[i].shared_tracks >= rivalries[i + 1].shared_tracks

\* C17 witness: three rivalries; the pair met first has 3 shared tracks and is
\* reported behind a pair with 4.
C17_Witness ==
    /\ pc = "rivalries"
    /\ Len(rivalries) = 3
    /\ rivalry_data[1].key = <<"alice", "bob">>
    /\ Len(rivalry_data[1].track_data) = 3
    /\ rivalries[1].shared_tracks = 4
    /\ IsEntryOf(rivalries[1], "alice", "carol")
    /\ rivalries[2].shared_tracks = 3
    /\ IsEntryOf(rivalries[2], "alice", "bob")

(***************************************************************************)
(* The display name of one player's leaderboard row (gaming_leaderboard.py *)
(* 497-533).  records holds the rows get_player_records_from_db returned   *)
(* for the login, latest first; the date of a row is its timestamp.        *)
(***************************************************************************)
MaxNickRecords == 3

NickLogin == "alice"

NickFeed ==
    [login : {NickLogin}, nick : {"Al", "Zoe", ""}, track : {"trackX", "trackM"},
     rank : {<<"1">>, <<"2">>}]

\* One more row of the query's result (ORDER BY RecordDate DESC): its
\* timestamp is below those of the rows before it.
FetchPlayerRow ==
    /\ pc = "load"
    /\ challenge_cache # <<>>
    /\ Len(records) < MaxNickRecords
    /\ \E r \in NickFeed :
           records' = Append(records,
                          [login |-> r.login, nick |-> r.nick, track |-> r.track,
                           rank |-> r.rank, date |-> MaxNickRecords - Len(records)])
    /\ UNCHANGED <<pc, latest_nicks_cache, challenge_cache, dedupOut, scoreOut,
                   boardOut, rivalOut, analyzeOut, nickOut, storeOut>>

\* Lines 499-533 for one login of the roster.
SummarisePlayer ==
    /\ pc = "load"
    /\ challenge_cache # <<>>
    /\ records # <<>>
    /\ recent_records' = deduplicate_player_records(records)
    /\ player_table' = <<PlayerRow(NickLogin, recent_records', challenge_cache)>>
    /\ pc' = "summarised"
    /\ UNCHANGED <<records, latest_nicks_cache, challenge_cache, deduplicated_records,
                   rededuplicated, scoreOut, prev_player_table, prev_rankings,
                   player_table_with_trends, rivalOut, analyzeOut, nickOut, storeOut>>

NextNick ==
    \/ LoadChallengeInfo(BoardChallengeInfos)
    \/ FetchPlayerRow
    \/ SummarisePlayer

SpecNick == Init /\ [][NextNick]_vars

\* The rows that carry a nickname.
Named(recs) == {i \in 1..Len(recs) : recs[i].nick # ""}

\* C19: the display name of the player's summary is the nickname of the
\* latest of all the player's records of the window that carry one, whether
\* or not the deduplication kept that record.
C19_LatestDisplayName ==
    pc = "summarised" =>
        \A i \in Named(records) :
            (\A j \in Named(records) : records[j].date <= records[i].date)
                => player_table[1].nickname = records[i].nick

(***************************************************************************)
(* Achievement analyzers (weekly_team_stats.py 693-793, 930-962, 995-1114, *)
(* called from generate_report, lines 374-392 and 476).                    *)
(* For the analyzers the date of a row counts the minutes since 00:00 of   *)
(* the Thursday the window starts on.  A defaultdict is a sequence of      *)
(* [key, ...] entries in order of insertion; a float quotient a / b is     *)
(* kept as <<a, b>>.                                                       *)
(***************************************************************************)
\* record_datetime.date(), as the number of the day in the window
DayOf(date) == date \div 1440

\* record_datetime.hour
HourOf(date) == (date % 1440) \div 60

\* record_datetime.weekday(): day 0 of the window is a Thursday (3).
Weekday(day) == (3 + day) % 7

\* get_weekly_date_range, lines 31-40: the window ends today; with today a
\* Thursday it starts seven days back.
WindowLastDay == 7

TallyIndex(d, k) ==
    IF \E i \in 1..Len(d) : d[i].key = k
    THEN CHOOSE i \in 1..Len(d) : d[i].key = k
    ELSE 0

\* d[k] += 1 on a defaultdict(int)
Increment(d, k) ==
    LET i == TallyIndex(d, k)
    IN  IF i = 0 THEN Append(d, [key |-> k, count |-> 1])
        ELSE [d EXCEPT ![i].count = @ + 1]

\* max(items, key=count): the first of the items with the greatest count.
FirstMax(items) ==
    items[CHOOSE i \in 1..Len(items) :
              /\ \A j \in 1..Len(items) : items[j].count <= items[i].count
              /\ \A j \in 1..(i - 1) : items[j].count < items[i].count]

\* time_stats['binge_racer'][login][day_key] += 1
IncrementDay(d, login, day) ==
    LET i == TallyIndex(d, login)
    IN  IF i = 0
        THEN Append(d, [key |-> login, days |-> <<[key |-> day, count |-> 1]>>])
        ELSE [d EXCEPT ![i].days = Increment(@, day)]

\* time_stats['daily_grinder'][login].add(day_key); count is len() of the set.
AddDay(d, login, day) ==
    LET i == TallyIndex(d, login)
    IN  IF i = 0 THEN Append(d, [key |-> login, days |-> {day}, count |-> 1])
        ELSE [d EXCEPT ![i].days = @ \cup {day},
                       ![i].count = Cardinality(d[i].days \cup {day})]

\* The loop of lines 705-740.  Every date of the feed parses, so the except
\* branch of line 739 is not taken.
RECURSIVE TimeStatsLoop(_, _)
TimeStatsLoop(time_stats, rest) ==
    IF rest = <<>> THEN time_stats
    ELSE LET record == Head(rest)
             login == record.login
             day == DayOf(record.date)
             hour == HourOf(record.date)
         IN  IF ~(0 <= day /\ day <= WindowLastDay)
             THEN TimeStatsLoop(time_stats, Tail(rest))
             ELSE TimeStatsLoop(
                      [night_owl |->
                           IF 0 <= hour /\ hour <= 6
                           THEN Increment(time_stats.night_owl, login)
                           ELSE time_stats.night_owl,
                       weekend_warrior |->
                           IF Weekday(day) \in {5, 6}
                           THEN Increment(time_stats.weekend_warrior, login)
                           ELSE time_stats.weekend_warrior,
                       binge_racer |-> IncrementDay(time_stats.binge_racer, login, day),
                       daily_grinder |-> AddDay(time_stats.daily_grinder, login, day)],
                      Tail(rest))

\* sum(1 for r in records if r[0] == login)
TotalRecords(recs, login) ==
    Cardinality({i \in 1..Len(recs) : recs[i].login = login})

\* The (login, day, count) triples in the order the loops of lines 770-771
\* meet them.
RECURSIVE BingeItems(_)
BingeItems(binge) ==
    IF binge = <<>> THEN <<>>
    ELSE [i \in 1..Len(Head(binge).days) |->
             [key |-> Head(binge).key, day |-> Head(binge).days[i].key,
              count |-> Head(binge).days[i].count]]
         \o BingeItems(Tail(binge))

\* Lines 769-783 with the check of line 782 left out.
BingeRacerUnchecked(results, binge, player_nicks, recs) ==
    IF binge = <<>>
    THEN DictPut(results, "binge_racer",
                 [player |-> "", count |-> 0, date |-> "", percentage |-> 0])
    ELSE LET best == FirstMax(BingeItems(binge))
         IN  DictPut(results, "binge_racer",
                     [player |-> DictGet(player_nicks, best.key, best.key),
                      count |-> best.count, date |-> best.day,
                      percentage |-> <<best.count * 100,
                                       TotalRecords(recs, best.key)>>])

\* Lines 769-783: a count replaces the best one only when it is greater, and
\* every count is at least 1.
BingeRacer(results, binge, player_nicks, recs) ==
    IF binge = <<>> THEN results
    ELSE LET best == FirstMax(BingeItems(binge))
         IN  DictPut(results, "binge_racer",
                     [player |-> DictGet(player_nicks, best.key, best.key),
                      count |-> best.count, date |-> best.day,
                      percentage |-> <<best.count * 100,
                                       TotalRecords(recs, best.key)>>])

\* analyze_time_masters after the nickname lookup of line 703.
analyze_time_masters(player_nicks, recs) ==
    LET time_stats ==
            TimeStatsLoop([night_owl |-> <<>>, weekend_warrior |-> <<>>,
                           binge_racer |-> <<>>, daily_grinder |-> <<>>], recs)
        r1 == IF time_stats.night_owl # <<>>
              THEN LET best == FirstMax(time_stats.night_owl)
                   IN  DictPut(<<>>, "night_owl",
                               [player |-> DictGet(player_nicks, best.key, best.key),
                                count |-> best.count])
              ELSE <<>>
        r2 == IF time_stats.weekend_warrior # <<>>
              THEN LET best == FirstMax(time_stats.weekend_warrior)
                   IN  DictPut(r1, "weekend_warrior",
                               [player |-> DictGet(player_nicks, best.key, best.key),
                                count |-> best.count,
                                percentage |-> <<best.count * 100,
                                                 TotalRecords(recs, best.key)>>])
              ELSE r1
        r3 == BingeRacer(r2, time_stats.binge_racer, player_nicks, recs)
    IN  IF time_stats.daily_grinder # <<>>
        THEN LET best == FirstMax(time_stats.daily_grinder)
             IN  DictPut(r3, "daily_grinder",
                         [player |-> DictGet(player_nicks, best.key, best.key),
                          days_played |-> best.count])
        ELSE r3

\* The loop of lines 941-951 of analyze_volume_champions: int(rank) raising
\* passes the record over before anything is counted.
RECURSIVE VolumeLoop(_, _, _)
VolumeLoop(player_stats, latest_nicks, rest) ==
    IF rest = <<>> THEN player_stats
    ELSE LET record == Head(rest)
             login == record.login
             nick == DictGet(latest_nicks, login, login)
             i == TallyIndex(player_stats, login)
         IN  IF Truthy(record.rank) /\ ~PyInt(record.rank).ok
             THEN VolumeLoop(player_stats, latest_nicks, Tail(rest))
             ELSE VolumeLoop(
                      IF i = 0
                      THEN Append(player_stats,
                                  [key |-> login, count |-> 1, nick |-> nick])
                      ELSE [player_stats EXCEPT ![i].count = @ + 1, ![i].nick = nick],
                      latest_nicks, Tail(rest))

\* analyze_volume_champions after the nickname lookup of line 939; count is
\* total_records.
analyze_volume_champions(latest_nicks, recs) ==
    LET player_stats == VolumeLoop(<<>>, latest_nicks, recs)
    IN  IF player_stats # <<>>
        THEN LET best_volume == FirstMax(player_stats)
             IN  DictPut(<<>>, "no_lifer",
                         [player |-> best_volume.nick,
                          total_dedi |-> best_volume.count])
        ELSE <<>>

\* The loop of lines 1012-1029 of analyze_humorous_stats.  int(rank) raising
\* ends the iteration before the hour is taken (except: continue); every date
\* of the feed has a time of day.
RECURSIVE PlayerDataLoop(_, _, _)
PlayerDataLoop(player_data, latest_nicks, rest) ==
    IF rest = <<>> THEN player_data
    ELSE LET record == Head(rest)
             login == record.login
             parsed == PyInt(record.rank)
             i0 == TallyIndex(player_data, login)
             data == IF i0 = 0
                     THEN Append(player_data,
                                 [key |-> login, records |-> <<>>, ranks |-> <<>>,
                                  tracks |-> {}, hours |-> {}, nick |-> ""])
                     ELSE player_data
             i == TallyIndex(data, login)
             old == data[i]
             entered == [old EXCEPT !.records = Append(@, record),
                                    !.nick = DictGet(latest_nicks, login, login),
                                    !.tracks = @ \cup {record.track}]
             new == IF Truthy(record.rank) /\ ~parsed.ok THEN entered
                    ELSE [entered EXCEPT
                             !.ranks = IF Truthy(record.rank)
                                       THEN Append(@, parsed.val) ELSE @,
                             !.hours = @ \cup {HourOf(record.date)}]
         IN  PlayerDataLoop([data EXCEPT ![i] = new], latest_nicks, Tail(rest))

RECURSIVE SumSeq(_)
SumSeq(s) == IF s = <<>> THEN 0 ELSE Head(s) + SumSeq(Tail(s))

\* get_avg_rank with 0 in place of 999 for a player without ranks.
AvgRankOfNoSentinel(data) ==
    IF data.ranks # <<>> THEN <<SumSeq(data.ranks), Len(data.ranks)>> ELSE <<0, 1>>

\* get_avg_rank, lines 1042-1046, as <<sum, number>>.
AvgRankOf(data) ==
    IF data.ranks # <<>> THEN <<SumSeq(data.ranks), Len(data.ranks)>> ELSE <<999, 1>>

\* a < b of two quotients with positive denominators
QuotientLess(a, b) == a[1] * b[2] < b[1] * a[2]

\* Lines 1032-1055.
Benchwarmer(results, player_data) ==
    IF player_data = <<>> THEN results
    ELSE LET min_tracks ==
                 CHOOSE n \in {Cardinality(player_data[i].tracks) :
                                   i \in 1..Len(player_data)} :
                     \A i \in 1..Len(player_data) :
                         n <= Cardinality(player_data[i].tracks)
             tied == {i \in 1..Len(player_data) :
                          Cardinality(player_data[i].tracks) = min_tracks}
             b == CHOOSE i \in tied :
                      /\ \A j \in tied : ~QuotientLess(AvgRankOf(player_data[i]),
                                                       AvgRankOf(player_data[j]))
                      /\ \A j \in tied : j < i =>
                             QuotientLess(AvgRankOf(player_data[j]),
                                          AvgRankOf(player_data[i]))
         IN  DictPut(results, "benchwarmer",
                     [player |-> player_data[b].nick,
                      total_records |-> Cardinality(player_data[b].tracks)])

\* track_recs.sort(key=lambda x: x[5]): stable, ascending by date.
RECURSIVE SortByDate(_)
SortByDate(recs) ==
    IF recs = <<>> THEN <<>>
    ELSE LET x == recs[Len(recs)]
             sorted == SortByDate(SubSeq(recs, 1, Len(recs) - 1))
             n == Cardinality({i \in 1..Len(sorted) : sorted[i].date <= x.date})
         IN  SubSeq(sorted, 1, n) \o <<x>> \o SubSeq(sorted, n + 1, Len(sorted))

\* The tracks of a player's records in order of first appearance.
RECURSIVE TracksInOrder(_, _)
TracksInOrder(seen, rest) ==
    IF rest = <<>> THEN seen
    ELSE IF \E i \in 1..Len(seen) : seen[i] = Head(rest).track
         THEN TracksInOrder(seen, Tail(rest))
         ELSE TracksInOrder(Append(seen, Head(rest).track), Tail(rest))

RECURSIVE RecordsOnTrack(_, _)
RecordsOnTrack(recs, track) ==
    IF recs = <<>> THEN <<>>
    ELSE IF Head(recs).track = track
         THEN <<Head(recs)>> \o RecordsOnTrack(Tail(recs), track)
         ELSE RecordsOnTrack(Tail(recs), track)

\* int(r[4]) if r[4] else 999, with ok FALSE where int() raises.
DropRank(rank) == IF Truthy(rank) THEN PyInt(rank) ELSE [ok |-> TRUE, val |-> 999]

\* The loop of lines 1072-1083 over the consecutive records of one track.
RECURSIVE DropLoop(_, _, _, _)
DropLoop(best, track, track_recs, i) ==
    IF i >= Len(track_recs) THEN best
    ELSE LET rank1 == DropRank(track_recs[i].rank)
             rank2 == DropRank(track_recs[i + 1].rank)
         IN  IF rank1.ok /\ rank2.ok /\ rank2.val - rank1.val > best.count
             THEN DropLoop([count |-> rank2.val - rank1.val, track |-> track,
                            original_rank |-> rank1.val, final_rank |-> rank2.val],
                           track, track_recs, i + 1)
             ELSE DropLoop(best, track, track_recs, i + 1)

\* The loop of line 1068 over the tracks of one player.
RECURSIVE TrackDropLoop(_, _, _)
TrackDropLoop(best, tracks, recs) ==
    IF tracks = <<>> THEN best
    ELSE LET track_recs == RecordsOnTrack(recs, Head(tracks))
         IN  TrackDropLoop(
                 IF Len(track_recs) >= 2
                 THEN DropLoop(best, Head(tracks), SortByDate(track_recs), 1)
                 ELSE best,
                 Tail(tracks), recs)

\* Lines 1058-1086: the players with a drop, count being max_drop.
RECURSIVE RageQuitCandidates(_)
RageQuitCandidates(player_data) ==
    IF player_data = <<>> THEN <<>>
    ELSE LET data == Head(player_data)
             best == TrackDropLoop([count |-> 0, track |-> "", original_rank |-> 0,
                                    final_rank |-> 0],
                                   TracksInOrder(<<>>, data.records), data.records)
         IN  (IF best.count > 0
              THEN <<[nick |-> data.nick, count |-> best.count, track |-> best.track,
                      original_rank |-> best.original_rank,
                      final_rank |-> best.final_rank]>>
              ELSE <<>>)
             \o RageQuitCandidates(Tail(player_data))

\* Lines 1099-1102: the players with an hour, count being len(hours).
RECURSIVE CaffeineCandidates(_)
CaffeineCandidates(player_data) ==
    IF player_data = <<>> THEN <<>>
    ELSE LET data == Head(player_data)
         IN  (IF data.hours # {}
              THEN <<[nick |-> data.nick, count |-> Cardinality(data.hours),
                      total_records |-> Len(data.records)]>>
              ELSE <<>>)
             \o CaffeineCandidates(Tail(player_data))

\* analyze_humorous_stats after the nickname lookup of line 1000.
analyze_humorous_stats(latest_nicks, recs) ==
    LET player_data == PlayerDataLoop(<<>>, latest_nicks, recs)
        r1 == Benchwarmer(<<>>, player_data)
        rage_quit_candidates == RageQuitCandidates(player_data)
        r2 == IF rage_quit_candidates # <<>>
              THEN LET rage_quitter == FirstMax(rage_quit_candidates)
                   IN  DictPut(r1, "rage_quit_candidate",
                               [player |-> rage_quitter.nick,
                                rank_drop |-> rage_quitter.count,
                                track |-> rage_quitter.track,
                                original_rank |-> rage_quitter.original_rank,
                                final_rank |-> rage_quitter.final_rank])
              ELSE r1
        caffeine_candidates == CaffeineCandidates(player_data)
    IN  IF caffeine_candidates # <<>>
        THEN LET best_caffeine == FirstMax(caffeine_candidates)
             IN  DictPut(r2, "caffeine_addict",
                         [player |-> best_caffeine.nick,
                          hours |-> best_caffeine.count,
                          total_records |-> best_caffeine.total_records])
        ELSE r2

(***************************************************************************)
(* The analyzers of generate_report on one generator.                      *)
(***************************************************************************)
MaxAnalyzeRecords == 3

\* Thursday 03:00, Saturday 12:00 and Sunday 05:00 of the window.
AnalyzeDates == {180, 3600, 4620}

\* alice is "Al" on her rank-1 rows and "Zoe" on her rank-2 rows.
AnalyzeFeed ==
    {[login |-> "alice", nick |-> IF rank = <<"1">> THEN "Al" ELSE "Zoe",
      track |-> track, rank |-> rank, date |-> date] :
        track \in {"track1", "track2"}, rank \in {<<"1">>, <<"2">>},
        date \in AnalyzeDates}
    \cup
    {[login |-> "bob", nick |-> "Bob", track |-> "track1", rank |-> <<"3">>,
      date |-> date] : date \in AnalyzeDates}

\* One more row of the query of lines 78-83 (ORDER BY RecordDate DESC).
FetchAnalyzeRow(feed, max) ==
    /\ pc = "load"
    /\ Len(records) < max
    /\ \E r \in feed :
           /\ records # <<>> => records[Len(records)].date >= r.date
           /\ records' = Append(records, r)
    /\ UNCHANGED <<pc, latest_nicks_cache, challenge_cache, dedupOut, scoreOut,
                   boardOut, rivalOut, analyzeOut, nickOut, storeOut>>

\* generate_report, lines 361-369: nothing is analysed without rows.
StartReport ==
    /\ pc = "load"
    /\ records # <<>>
    /\ deduplicated_records' = deduplicate_records(records)
    /\ pc' = "report"
    /\ UNCHANGED <<records, recent_records, rededuplicated, latest_nicks_cache,
                   challenge_cache, scoreOut, boardOut, rivalOut, analyzeOut, nickOut, storeOut>>

\* time_masters = self.analyze_time_masters(raw_records)
AnalyzeTimeMasters ==
    /\ pc = "report"
    /\ time_masters = <<>>
    /\ LET player_nicks == get_all_latest_nicknames(latest_nicks_cache, records)
       IN  /\ latest_nicks_cache' = <<player_nicks>>
           /\ time_masters' = <<analyze_time_masters(player_nicks, records)>>
    /\ UNCHANGED <<records, pc, challenge_cache, dedupOut, scoreOut, boardOut,
                   rivalOut, volume_champions, humorous_stats, performance_elite,
                   nickOut, storeOut>>

\* volume_champions = self.analyze_volume_champions(deduplicated_records)
AnalyzeVolumeChampions ==
    /\ pc = "report"
    /\ volume_champions = <<>>
    /\ LET latest_nicks ==
               get_all_latest_nicknames(latest_nicks_cache, deduplicated_records)
       IN  /\ latest_nicks_cache' = <<latest_nicks>>
           /\ volume_champions' =
                  <<analyze_volume_champions(latest_nicks, deduplicated_records)>>
    /\ UNCHANGED <<records, pc, challenge_cache, dedupOut, scoreOut, boardOut,
                   rivalOut, time_masters, humorous_stats, performance_elite,
                   nickOut, storeOut>>

NextAnalyze ==
    \/ FetchAnalyzeRow(AnalyzeFeed, MaxAnalyzeRecords)
    \/ StartReport
    \/ AnalyzeTimeMasters
    \/ AnalyzeVolumeChampions

SpecAnalyze == Init /\ [][NextAnalyze]_vars

\* C18: whichever analyzers ran before it on the generator, the result of an
\* analyzer, the player names in it included, is the one it gives for its own
\* input on a generator no analyzer has run on.
C18_AnalyzerOrderIndependent ==
    /\ time_masters # <<>> =>
           time_masters[1] =
               analyze_time_masters(get_all_latest_nicknames(<<>>, records), records)
    /\ volume_champions # <<>> =>
           volume_champions[1] =
               analyze_volume_champions(
                   get_all_latest_nicknames(<<>>, deduplicated_records),
                   deduplicated_records)

(***************************************************************************)
(* Every core component applied to the same records, each on a generator   *)
(* of its own, the empty sequence of records included.                     *)
(***************************************************************************)
MaxComponentRecords == 2

ComponentFeed ==
    {[login |-> login, nick |-> IF login = "alice" THEN "Zoe" ELSE "Bob",
      track |-> track, rank |-> rank, date |-> date] :
        login \in {"alice", "bob"}, track \in {"track1", "track2"},
        rank \in {<<"1">>, <<"3">>}, date \in AnalyzeDates}

RunComponents ==
    /\ pc = "load"
    /\ deduplicated_records' = deduplicate_records(records)
    /\ recent_records' = deduplicate_player_records(records)
    /\ points' = calculate_points(records, challenge_cache)
    /\ rivalry_data' = RivalryData(records)
    /\ rivalries' = detect_rivalries(records, get_all_latest_nicknames(<<>>, records))
    /\ time_masters' =
           <<analyze_time_masters(get_all_latest_nicknames(<<>>, records), records)>>
    /\ humorous_stats' =
           <<analyze_humorous_stats(get_all_latest_nicknames(<<>>, records), records)>>
    /\ pc' = "components"
    /\ UNCHANGED <<records, rededuplicated, latest_nicks_cache, challenge_cache,
                   rescored, multiplier, boardOut, rivalries_without,
                   volume_champions, performance_elite,
                   nickOut, storeOut>>

NextComponents ==
    \/ FetchAnalyzeRow(ComponentFeed, MaxComponentRecords)
    \/ RunComponents

SpecComponents == Init /\ [][NextComponents]_vars

\* C14: on an empty sequence of records no component raises and each returns
\* an empty result: both deduplicators an empty list, calculate_points 0.0,
\* detect_rivalries an empty list, analyze_time_masters and
\* analyze_humorous_stats a result without any achievement entry.
C14_EmptyInput ==
    (pc = "components" /\ records = <<>>) =>
        /\ deduplicated_records = <<>>
        /\ recent_records = <<>>
        /\ points = [raised |-> FALSE, points |-> 0]
        /\ rivalries = <<>>
        /\ time_masters = << <<>> >>
        /\ humorous_stats = << <<>> >>

\* C14 witness: the components have run on the empty sequence.
C14_Witness ==
    /\ pc = "components"
    /\ records = <<>>
    /\ points.points = 0
    /\ DOMAIN time_masters[1] = {}
    /\ DOMAIN humorous_stats[1] = {}

(***************************************************************************)
(* analyze_performance_elite (weekly_team_stats.py 795-891).               *)
(***************************************************************************)
\* The loop of lines 815-846.  int(rank) raising passes the record over
\* before the player is entered into player_stats; count is total_records.
\* The competition weights of lines 825-833 and the loop of lines 856-860
\* reach no result and are left out.
RECURSIVE EliteLoop(_, _, _)
EliteLoop(player_stats, latest_nicks, rest) ==
    IF rest = <<>> THEN player_stats
    ELSE LET record == Head(rest)
             login == record.login
             parsed == PyInt(record.rank)
             rank_int == IF Truthy(record.rank) THEN parsed.val ELSE 999
             i0 == TallyIndex(player_stats, login)
             stats == IF i0 = 0
                      THEN Append(player_stats,
                                  [key |-> login, count |-> 0, rank_1 |-> 0,
                                   rank_2 |-> 0, rank_3 |-> 0, top_3 |-> 0,
                                   nick |-> ""])
                      ELSE player_stats
             i == TallyIndex(stats, login)
         IN  IF Truthy(record.rank) /\ ~parsed.ok
             THEN EliteLoop(player_stats, latest_nicks, Tail(rest))
             ELSE EliteLoop(
                      [stats EXCEPT
                          ![i].count = @ + 1,
                          ![i].nick = DictGet(latest_nicks, login, login),
                          ![i].rank_1 = IF rank_int = 1 THEN @ + 1 ELSE @,
                          ![i].rank_2 = IF rank_int = 2 THEN @ + 1 ELSE @,
                          ![i].rank_3 = IF rank_int = 3 THEN @ + 1 ELSE @,
                          ![i].top_3 = IF rank_int <= 3 THEN @ + 1 ELSE @],
                      latest_nicks, Tail(rest))

\* max(player_stats.items(), key=lambda x: x[1][field])
FirstMaxBy(items, field) ==
    items[CHOOSE i \in 1..Len(items) :
              /\ \A j \in 1..Len(items) : items[j][field] <= items[i][field]
              /\ \A j \in 1..(i - 1) : items[j][field] < items[i][field]]

\* Lines 865-871, 874-880 and 883-889.
MostOfRank(results, player_stats, field, name, count_name) ==
    IF player_stats = <<>> THEN results
    ELSE LET best == FirstMaxBy(player_stats, field)
         IN  IF best[field] > 0
             THEN DictPut(results, name,
                          DictPut(DictPut(<<>>, "player", best.nick),
                                  count_name, best[field]))
             ELSE results

\* analyze_performance_elite after the lookups of lines 810 and 813.
analyze_performance_elite(latest_nicks, recs) ==
    LET player_stats == EliteLoop(<<>>, latest_nicks, recs)
        r1 == MostOfRank(<<>>, player_stats, "rank_1", "lucky_number", "rank_1_count")
        r2 == MostOfRank(r1, player_stats, "rank_2", "always_the_bridesmaid",
                         "rank_2_count")
    IN  MostOfRank(r2, player_stats, "rank_3", "third_times_the_charm",
                   "rank_3_count")

MaxEliteRecords == 3

\* Rows of one moment of the window: rank 1, 2, 3 or a text that is no number.
EliteFeed ==
    {[login |-> login, nick |-> IF login = "alice" THEN "Zoe" ELSE "Bob",
      track |-> track, rank |-> rank, date |-> 180] :
        login \in {"alice", "bob"}, track \in {"track1", "track2"},
        rank \in {<<"1">>, <<"2">>, <<"3">>, <<"D", "N", "F">>}}

\* performance_elite = self.analyze_performance_elite(deduplicated_records)
AnalyzePerformanceElite ==
    /\ pc = "report"
    /\ performance_elite = <<>>
    /\ LET latest_nicks ==
               get_all_latest_nicknames(latest_nicks_cache, deduplicated_records)
       IN  /\ latest_nicks_cache' = <<latest_nicks>>
           /\ performance_elite' =
                  <<analyze_performance_elite(latest_nicks, deduplicated_records)>>
    /\ UNCHANGED <<records, pc, challenge_cache, dedupOut, scoreOut, boardOut,
                   rivalOut, time_masters, volume_champions, humorous_stats,
                   nickOut, storeOut>>

NextElite ==
    \/ FetchAnalyzeRow(EliteFeed, MaxEliteRecords)
    \/ StartReport
    \/ AnalyzePerformanceElite

SpecElite == Init /\ [][NextElite]_vars

\* The players of the rows, and the number of a player's rows on a rank.
LoginsOf(in) == {in[i].login : i \in 1..Len(in)}

CountOfRank(in, login, k) ==
    Cardinality({i \in 1..Len(in) : in[i].login = login /\ ClaimRank(in[i].rank) = k})

FirstRowOf(in, login) == CHOOSE i \in 1..Len(in) :
    in[i].login = login /\ \A j \in 1..(i - 1) : in[j].login # login

\* The entry the claim describes for rank k: absent when no player has a row
\* on rank k, else that of the first met of the players with the most.
MostOfRankAsClaimed(result, in, k, name, count_name) ==
    LET best == {l \in LoginsOf(in) :
                    \A m \in LoginsOf(in) : CountOfRank(in, m, k) <= CountOfRank(in, l, k)}
    IN  IF \A l \in LoginsOf(in) : CountOfRank(in, l, k) = 0
        THEN name \notin DOMAIN result
        ELSE /\ name \in DOMAIN result
             /\ \E l \in best :
                    /\ \A m \in best : FirstRowOf(in, l) <= FirstRowOf(in, m)
                    /\ result[name].player = DictGet(latest_nicks_cache[1], l, l)
                    /\ result[name][count_name] = CountOfRank(in, l, k)

\* C21: lucky_number, always_the_bridesmaid and third_times_the_charm each
\* name a player with the most rows on rank 1, 2 and 3, of several such
\* players the one met first in the input, and are absent when no player
\* has a row on that rank.
C21_MostOfRank ==
    performance_elite # <<>> =>
        /\ MostOfRankAsClaimed(performance_elite[1], deduplicated_records, 1,
                               "lucky_number", "rank_1_count")
        /\ MostOfRankAsClaimed(performance_elite[1], deduplicated_records, 2,
                               "always_the_bridesmaid", "rank_2_count")
        /\ MostOfRankAsClaimed(performance_elite[1], deduplicated_records, 3,
                               "third_times_the_charm", "rank_3_count")

(***************************************************************************)
(* analyze_humorous_stats on the raw rows of the window, each row with a   *)
(* timestamp of its own.                                                   *)
(***************************************************************************)
MaxHumorousRecords == 3

\* Rank 1, rank 3, a text that is no number, or no rank.
HumorousFeed ==
    [login : {"alice", "bob"}, track : {"track1", "track2"},
     rank : {<<"1">>, <<"3">>, <<"D", "N", "F">>, <<>>}]

\* One more row of the query of lines 78-83 (ORDER BY RecordDate DESC), an
\* hour before the row in front of it.
FetchStampedRow(feed, max) ==
    /\ pc = "load"
    /\ Len(records) < max
    /\ \E r \in feed :
           records' = Append(records,
                          [login |-> r.login,
                           nick |-> IF r.login = "alice" THEN "Zoe" ELSE "Bob",
                           track |-> r.track, rank |-> r.rank,
                           date |-> 60 * (max - Len(records))])
    /\ UNCHANGED <<pc, latest_nicks_cache, challenge_cache, dedupOut, scoreOut,
                   boardOut, rivalOut, analyzeOut, nickOut, storeOut>>

\* humorous_stats = self.analyze_humorous_stats(raw_records)
AnalyzeHumorousStats ==
    /\ pc = "report"
    /\ humorous_stats = <<>>
    /\ LET latest_nicks == get_all_latest_nicknames(latest_nicks_cache, records)
       IN  /\ latest_nicks_cache' = <<latest_nicks>>
           /\ humorous_stats' = <<analyze_humorous_stats(latest_nicks, records)>>
    /\ UNCHANGED <<records, pc, challenge_cache, dedupOut, scoreOut, boardOut,
                   rivalOut, time_masters, volume_champions, performance_elite,
                   nickOut, storeOut>>

NextHumorous ==
    \/ FetchStampedRow(HumorousFeed, MaxHumorousRecords)
    \/ StartReport
    \/ AnalyzeHumorousStats

SpecHumorous == Init /\ [][NextHumorous]_vars

TracksOf(in, login) == {in[i].track : i \in {k \in 1..Len(in) : in[k].login = login}}

\* The rows of a player with a rank that is a number.
NumericRows(in, login) ==
    {i \in 1..Len(in) : in[i].login = login /\ in[i].rank # NoneRank /\ IsDigit(in[i].rank)}

RECURSIVE SumOfRanks(_, _)
SumOfRanks(in, rows) ==
    IF rows = {} THEN 0
    ELSE LET i == CHOOSE k \in rows : TRUE
         IN  ClaimRank(in[i].rank) + SumOfRanks(in, rows \ {i})

\* 100 times the average numeric rank of a player, 99900 without one.
AverageTimes100(in, login) ==
    LET rows == NumericRows(in, login)
    IN  IF rows = {} THEN <<99900, 1>> ELSE <<100 * SumOfRanks(in, rows), Cardinality(rows)>>

\* C22: the benchwarmer is a player with the fewest distinct tracks; of
\* several such players it is one with the highest average numeric rank, a
\* player without numeric rank counting as 999; total_records is the number
\* of the selected player's distinct tracks.
C22_Benchwarmer ==
    humorous_stats # <<>> =>
        LET in == records
            fewest == {l \in LoginsOf(in) :
                          \A m \in LoginsOf(in) :
                              Cardinality(TracksOf(in, l)) <= Cardinality(TracksOf(in, m))}
        IN  /\ "benchwarmer" \in DOMAIN humorous_stats[1]
            /\ \E l \in fewest :
                   /\ \A m \in fewest :
                          AverageTimes100(in, m)[1] * AverageTimes100(in, l)[2]
                              <= AverageTimes100(in, l)[1] * AverageTimes100(in, m)[2]
                   /\ humorous_stats[1].benchwarmer.player
                          = DictGet(latest_nicks_cache[1], l, l)
                   /\ humorous_stats[1].benchwarmer.total_records
                          = Cardinality(TracksOf(in, l))

\* C22 witness: alice (rank 1) and bob (no numeric rank) have one track each;
\* bob, met second, is the benchwarmer.
C22_Witness ==
    /\ humorous_stats # <<>>
    /\ Len(records) = 2
    /\ records[1].login = "alice" /\ records[1].rank = <<"1">>
    /\ records[2].login = "bob" /\ records[2].rank = <<"D", "N", "F">>
    /\ humorous_stats[1].benchwarmer = [player |-> "Bob", total_records |-> 1]

\* Row j is the next row in time after row i among the rows of the same
\* player on the same track.
NextOnTrack(in, i, j) ==
    /\ in[i].login = in[j].login
    /\ in[i].track = in[j].track
    /\ in[i].date < in[j].date
    /\ \A k \in 1..Len(in) :
           (in[k].login = in[i].login /\ in[k].track = in[i].track)
               => ~(in[i].date < in[k].date /\ in[k].date < in[j].date)

RankIncrease(in, i, j) == ClaimRank(in[j].rank) - ClaimRank(in[i].rank)

\* C23: rage_quit_candidate reports the largest rank increase between two
\* rows of one player on one track that follow each other in time, with the
\* ranks and the track of such a pair; final_rank > original_rank and
\* rank_drop = final_rank - original_rank; there is no entry when no row is
\* worse than the row before it.
C23_RageQuit ==
    humorous_stats # <<>> =>
        LET in == records
            pairs == {p \in (1..Len(in)) \X (1..Len(in)) :
                         NextOnTrack(in, p[1], p[2]) /\ RankIncrease(in, p[1], p[2]) > 0}
        IN  IF pairs = {}
            THEN "rage_quit_candidate" \notin DOMAIN humorous_stats[1]
            ELSE /\ "rage_quit_candidate" \in DOMAIN humorous_stats[1]
                 /\ LET entry == humorous_stats[1].rage_quit_candidate
                    IN  /\ entry.final_rank > entry.original_rank
                        /\ entry.rank_drop = entry.final_rank - entry.original_rank
                        /\ \A p \in pairs : RankIncrease(in, p[1], p[2]) <= entry.rank_drop
                        /\ \E p \in pairs :
                               /\ entry.rank_drop = RankIncrease(in, p[1], p[2])
                               /\ entry.original_rank = ClaimRank(in[p[1]].rank)
                               /\ entry.final_rank = ClaimRank(in[p[2]].rank)
                               /\ entry.track = in[p[1]].track
                               /\ entry.player
                                      = DictGet(latest_nicks_cache[1], in[p[1]].login,
                                                in[p[1]].login)

(***************************************************************************)
(* Further claims about analyze_time_masters.                              *)
(***************************************************************************)
\* A player's rows on Saturday or Sunday.
WeekendRows(in, login) ==
    {i \in 1..Len(in) : in[i].login = login /\ Weekday(DayOf(in[i].date)) \in {5, 6}}

RowsOfLogin(in, login) == {i \in 1..Len(in) : in[i].login = login}

\* The weekend share of player l is not below that of player m.
ShareNotBelow(in, l, m) ==
    Cardinality(WeekendRows(in, m)) * Cardinality(RowsOfLogin(in, l))
        <= Cardinality(WeekendRows(in, l)) * Cardinality(RowsOfLogin(in, m))

\* C24: weekend_warrior names the player with the highest share of weekend
\* rows among their own rows, with that player's weekend count and share.
C24_WeekendShare ==
    (time_masters # <<>> /\ "weekend_warrior" \in DOMAIN time_masters[1]) =>
        \E l \in LoginsOf(records) :
            /\ \A m \in LoginsOf(records) : ShareNotBelow(records, l, m)
            /\ time_masters[1].weekend_warrior.player
                   = DictGet(latest_nicks_cache[1], l, l)
            /\ time_masters[1].weekend_warrior.count
                   = Cardinality(WeekendRows(records, l))

(***************************************************************************)
(* The two deduplicators on the same rows, signed and blank-padded rank    *)
(* texts included.                                                         *)
(***************************************************************************)
MaxEquivRecords == 2

EquivRanks ==
    {<<"1">>, <<"5">>, <<"-", "1">>, <<" ", "3">>, <<"D", "N", "F">>, <<>>}

EquivFeed ==
    [login : {"alice"}, nick : {"n"}, track : DedupTracks, rank : EquivRanks,
     date : {0}]

NextEquiv ==
    \/ FetchRow(EquivFeed, MaxEquivRecords)
    \/ Deduplicate

SpecEquiv == Init /\ [][NextEquiv]_vars

\* C25: given the same rows in the same order, deduplicate_records and
\* deduplicate_player_records return the same records in the same order,
\* whatever the rank texts.
C25_DeduplicatorsAgree ==
    pc = "deduplicated" => deduplicated_records = recent_records

(***************************************************************************)
(* The nickname lookup over the life of one WeeklyStatsGenerator           *)
(* (weekly_team_stats.py, lines 53 and 161-177): the lookup is called      *)
(* again and again, each time with records of the caller's choosing.       *)
(***************************************************************************)
MaxNickCalls == 3
MaxCallRecords == 2

\* The rows a caller passes: two logins, one of them renamed, one row without
\* a nickname.
CallRows ==
    {[login |-> "alice", nick |-> "Al", track |-> "track1", rank |-> <<"1">>,
      date |-> 1],
     [login |-> "alice", nick |-> "Zoe", track |-> "track1", rank |-> <<"1">>,
      date |-> 2],
     [login |-> "bob", nick |-> "Bob", track |-> "track1", rank |-> <<"2">>,
      date |-> 1],
     [login |-> "bob", nick |-> "", track |-> "track1", rank |-> <<"2">>,
      date |-> 2]}

RECURSIVE SeqsUpTo(_, _)
SeqsUpTo(rows, n) ==
    IF n = 0 THEN {<<>>}
    ELSE LET shorter == SeqsUpTo(rows, n - 1)
         IN  shorter \cup {Append(s, r) : s \in shorter, r \in rows}

\* self.get_all_latest_nicknames(records)
CallNicknames ==
    /\ IF last_call = <<>> THEN TRUE ELSE last_call.n < MaxNickCalls
    /\ \E recs \in SeqsUpTo(CallRows, MaxCallRecords) :
           LET returned == get_all_latest_nicknames(latest_nicks_cache, recs)
           IN  /\ latest_nicks_cache' = <<returned>>
               /\ first_call' = IF first_call = <<>> THEN <<recs>> ELSE first_call
               /\ last_call' = [n |-> IF last_call = <<>> THEN 1
                                      ELSE last_call.n + 1,
                                records |-> recs, returned |-> returned]
    /\ UNCHANGED <<records, pc, challenge_cache, dedupOut, scoreOut, boardOut,
                   rivalOut, analyzeOut, storeOut>>

NextCache == CallNicknames

SpecCache == Init /\ [][NextCache]_vars

LoginsIn(recs) == {recs[i].login : i \in 1..Len(recs)}

\* C26: every call of the lookup returns the mapping of the first call's
\* records, whatever records it is given, so no login absent from the first
\* call's records is ever given a nickname.
C26_FirstCallWins ==
    last_call # <<>> =>
        /\ last_call.returned = NicknamesLoop(<<>>, <<>>, first_call[1])
        /\ DOMAIN last_call.returned \subseteq LoginsIn(first_call[1])

\* A later call whose records name a player the first call's records lack.
C26_Witness ==
    /\ last_call # <<>>
    /\ last_call.n > 1
    /\ \E i \in 1..Len(last_call.records) :
           /\ last_call.records[i].nick # ""
           /\ last_call.records[i].login \notin LoginsIn(first_call[1])
    /\ first_call[1] # <<>>

(***************************************************************************)
(* analyze_time_masters on rows around six o'clock in the morning.         *)
(***************************************************************************)
MaxNightRecords == 3

\* 05:30, 06:00, 06:30 and 07:00 of the window's Thursday.
NightDates == {330, 360, 390, 420}

NightFeed ==
    {[login |-> login, nick |-> IF login = "alice" THEN "Zoe" ELSE "Bob",
      track |-> "track1", rank |-> <<"1">>, date |-> date] :
        login \in {"alice", "bob"}, date \in NightDates}

NextNight ==
    \/ FetchAnalyzeRow(NightFeed, MaxNightRecords)
    \/ StartReport
    \/ AnalyzeTimeMasters

SpecNight == Init /\ [][NextNight]_vars

\* A player's rows of the window with a time of day from 0:00 to 6:00.
NightRows(in, login) ==
    {i \in 1..Len(in) :
        /\ in[i].login = login
        /\ 0 <= DayOf(in[i].date) /\ DayOf(in[i].date) <= WindowLastDay
        /\ in[i].date % 1440 <= 360}

\* C27: night_owl counts exactly the rows of the window with a time of day
\* from 0:00 to 6:00: it names a player with the most such rows and that
\* number of rows, and is absent when no row lies in the window 0:00 to 6:00.
C27_NightOwl ==
    time_masters # <<>> =>
        /\ "night_owl" \in DOMAIN time_masters[1]
               <=> \E l \in LoginsOf(records) : NightRows(records, l) # {}
        /\ "night_owl" \in DOMAIN time_masters[1] =>
               \E l \in LoginsOf(records) :
                   /\ \A m \in LoginsOf(records) :
                          Cardinality(NightRows(records, m))
                              <= Cardinality(NightRows(records, l))
                   /\ time_masters[1].night_owl.player
                          = DictGet(latest_nicks_cache[1], l, l)
                   /\ time_masters[1].night_owl.count
                          = Cardinality(NightRows(records, l))

(***************************************************************************)
(* The win counts of a reported rivalry.                                   *)
(***************************************************************************)
\* C28: in every reported rivalry the first player has at least as many wins
\* as the second, and the two win counts add up to shared_tracks.
C28_WinsAddUp ==
    pc = "rivalries" =>
        \A i \in 1..Len(rivalries) :
            /\ rivalries[i].p1_wins >= rivalries[i].p2_wins
            /\ rivalries[i].p1_wins + rivalries[i].p2_wins
                   = rivalries[i].shared_tracks

\* A rivalry led by the player whose login is the second of the rivalry key.
C28_Witness ==
    /\ pc = "rivalries"
    /\ \E i \in 1..Len(rivalries) :
           /\ rivalries[i].player1 = "Bob"
           /\ rivalries[i].p1_wins = 2
           /\ rivalries[i].p2_wins = 1
           /\ rivalries[i].shared_tracks = 3

(***************************************************************************)
(* The columns of a leaderboard row (gaming_leaderboard.py, lines 209-215  *)
(* and 519-533) over the whole range of rank texts and multipliers.        *)
(***************************************************************************)
MaxColumnRecords == 2

\* Rank texts: first, top 3, top 5, beyond, '01' (digits, but not the text
\* '1'), empty, no number.
ColumnRanks ==
    {<<"1">>, <<"3">>, <<"5">>, <<"6">>, <<"0", "1">>, <<>>, <<"D", "N", "F">>}

\* Rows of alice in either window on trackA (20 participants, multiplier 1.0)
\* and trackM (no row in challenge_info, multiplier 0.5).
ColumnFeed ==
    {[login |-> "alice", nick |-> "n", track |-> track, rank |-> rank,
      date |-> window] :
        track \in {"trackA", "trackM"}, rank \in ColumnRanks,
        window \in {PreviousWindow, CurrentWindow}}

ColumnChallengeInfos == {[t \in {"trackA"} |-> 20]}

\* One more row of the table, held in RecordDate DESC order.
FetchColumnRow ==
    /\ pc = "load"
    /\ challenge_cache # <<>>
    /\ Len(records) < MaxColumnRecords
    /\ \E r \in ColumnFeed :
           /\ records # <<>> => records[Len(records)].date >= r.date
           /\ records' = Append(records, r)
    /\ UNCHANGED <<pc, latest_nicks_cache, challenge_cache, dedupOut, scoreOut,
                   boardOut, rivalOut, analyzeOut, nickOut, storeOut>>

NextColumns ==
    \/ LoadChallengeInfo(ColumnChallengeInfos)
    \/ FetchColumnRow
    \/ GenerateLeaderboard

SpecColumns == Init /\ [][NextColumns]_vars

\* top1 <= top3 <= top5 <= total_records and 0 <= points <= 5 * total_records
\* (points in tenths).
ColumnsInRange(row) ==
    /\ row.top1 <= row.top3
    /\ row.top3 <= row.top5
    /\ row.top5 <= row.total_records
    /\ 0 <= row.points
    /\ row.points <= 50 * row.total_records

\* C29: in every row of the current and of the previous leaderboard the count
\* of rank 1 is at most the count of rank <= 3, which is at most the count of
\* rank <= 5, which is at most the record count, and the points lie between 0
\* and 5 times the record count.
C29_ColumnsInRange ==
    pc = "ranked" =>
        /\ \A i \in 1..Len(player_table) : ColumnsInRange(player_table[i])
        /\ \A i \in 1..Len(prev_player_table) : ColumnsInRange(prev_player_table[i])

\* The current row holds the full 5 points per record; the previous row has a
\* top-3 record that is no rank 1.
C29_Witness ==
    /\ pc = "ranked"
    /\ \E i \in 1..Len(player_table) :
           /\ player_table[i].total_records = 1
           /\ player_table[i].points = 50
    /\ \E i \in 1..Len(prev_player_table) :
           /\ prev_player_table[i].top1 < prev_player_table[i].top3
           /\ prev_player_table[i].total_records = 1

(***************************************************************************)
(* The record store (src/backend/database/dedimania_fetch_to_sqlite.py).   *)
(* A row of dedimania_records is                                           *)
(*   [player_login, RecordDate, Challenge, server, fetch_timestamp]        *)
(* with UNIQUE(player_login, RecordDate) (line 383).  fetch_timestamp is   *)
(* the number of the run that scraped the row.  create_table_if_needed     *)
(* creates no column server (lines 374-383), so the table has one only     *)
(* when the database file came with it; without it the SELECT of line 463  *)
(* and the INSERT of line 533 raise sqlite3.OperationalError.              *)
(***************************************************************************)
MaxFetchedRows == 3
MaxFetchRuns == 2

\* Line 479
FailureSentinels == {"", "No UUID", "No Challenge", "Unknown", "Error"}

\* The rows the site shows for a player: with or without a RecordDate, with
\* or without a Challenge.
ScrapedRows ==
    [player_login : {"alice"}, RecordDate : {"", "d1"}, Challenge : {"", "trackA"}]

\* What get_server_for_record returns: a server name or a failure text.
FetchedServers == {"srvA", "Unknown", "Error"}

SameStoreKey(a, b) == a.player_login = b.player_login /\ a.RecordDate = b.RecordDate

\* INSERT OR REPLACE in place of INSERT OR IGNORE.
InsertOrReplace(table, values) ==
    [table |-> {r \in table : ~SameStoreKey(r, values)} \cup {values}, rowcount |-> 1]

\* Line 533: INSERT OR IGNORE under UNIQUE(player_login, RecordDate).
InsertOrIgnore(table, values) ==
    IF \E r \in table : SameStoreKey(r, values)
    THEN [table |-> table, rowcount |-> 0]
    ELSE [table |-> table \cup {values}, rowcount |-> 1]

\* Lines 460-473: the server of the stored row of the same key, <<>> for None.
ExistingServer(table, scraped) ==
    IF scraped.RecordDate # "" /\ \E r \in table : SameStoreKey(r, scraped)
    THEN <<(CHOOSE r \in table : SameStoreKey(r, scraped)).server>>
    ELSE <<>>

\* Lines 478-501: the server value of the record to insert.
ServerOf(existing_server, challenge_name, uuid, fetched) ==
    IF existing_server # <<>> /\ existing_server[1] \notin FailureSentinels
    THEN existing_server[1]
    ELSE IF challenge_name # ""
         THEN IF uuid THEN fetched ELSE "No UUID"
         ELSE "No Challenge"

\* main, lines 542-587: one more run of the script.  create_table_if_needed
\* leaves an existing table as it is.
StartRun ==
    /\ pc \in {"load", "fetching", "crashed"}
    /\ fetch_run < MaxFetchRuns
    /\ fetch_run' = fetch_run + 1
    /\ IF server_column = <<>>
       THEN \E has \in BOOLEAN : server_column' = <<has>>
       ELSE UNCHANGED server_column
    /\ pc' = "fetching"
    /\ UNCHANGED <<records, latest_nicks_cache, challenge_cache, dedupOut, scoreOut,
                   boardOut, rivalOut, analyzeOut, nickOut, store, last_insert>>

\* One iteration of the row loop of fetch_and_store, lines 428-540.
StoreRow ==
    /\ pc = "fetching"
    /\ IF last_insert = <<>> THEN TRUE ELSE last_insert.n < MaxFetchedRows
    /\ \E scraped \in ScrapedRows, uuid \in BOOLEAN, fetched \in FetchedServers :
           LET n == IF last_insert = <<>> THEN 1 ELSE last_insert.n + 1
               values == [player_login |-> scraped.player_login,
                          RecordDate |-> scraped.RecordDate,
                          Challenge |-> scraped.Challenge,
                          server |-> ServerOf(ExistingServer(store, scraped),
                                              scraped.Challenge, uuid, fetched),
                          fetch_timestamp |-> fetch_run]
               inserted == InsertOrIgnore(store, values)
           IN  IF ~server_column[1]
               THEN \* no such column: server
                    /\ pc' = IF scraped.RecordDate # "" THEN "crashed" ELSE pc
                    /\ last_insert' = [n |-> n, values |-> <<>>, rowcount |-> 0]
                    /\ UNCHANGED store
               ELSE /\ store' = inserted.table
                    /\ last_insert' = [n |-> n, values |-> <<values>>,
                                       rowcount |-> inserted.rowcount]
                    /\ UNCHANGED pc
    /\ UNCHANGED <<records, latest_nicks_cache, challenge_cache, dedupOut, scoreOut,
                   boardOut, rivalOut, analyzeOut, nickOut, server_column, fetch_run>>

NextStore ==
    \/ StartRun
    \/ StoreRow

SpecStore == Init /\ [][NextStore]_vars

UniqueKeys(table) == \A a, b \in table : SameStoreKey(a, b) => a = b

\* C30: the store holds at most one row per (player_login, RecordDate), and a
\* step of a run changes no stored row: every row stays as it is, server
\* included, and none is added for a key the store already holds.
C30_StoreKeepsRows ==
    [][/\ UniqueKeys(store')
       /\ \A r \in store : r \in store'
       /\ \A r \in store' : (\E q \in store : SameStoreKey(q, r)) => r \in store]_vars

\* A later run met a stored row whose server was a failure text, fetched a
\* server name for it, and inserted nothing.
C30_Witness ==
    /\ last_insert # <<>>
    /\ last_insert.values # <<>>
    /\ last_insert.rowcount = 0
    /\ last_insert.values[1].server = "srvA"
    /\ \E r \in store :
           /\ SameStoreKey(r, last_insert.values[1])
           /\ r.server = "Unknown"
           /\ r.fetch_timestamp < last_insert.values[1].fetch_timestamp

====
